---- MODULE Spec2Model ----
(***************************************************************************)
(* SnapConnect: expiring posts, the feed listener, tag discovery.          *)
(*                                                                         *)
(* Strings are sequences of UTF-16 code units (65 = "A", 97 = "a"), so     *)
(* that toLowerCase, trim, includes and the default Array.sort order are   *)
(* computed the way JavaScript computes them.  Timestamps are milliseconds.*)
(***************************************************************************)
EXTENDS Integers, Sequences, FiniteSets, TLC

\* ------------------------------------------------------------------ bounds
MaxTicks == 2        \* clock advances in one behaviour
MaxPosts == 2        \* documents ever added to the snaps collection
MaxCallbacks == 2    \* feed snapshot callbacks running at the same time
MaxFetches == 1      \* fetchSnaps runs in flight at the same time

\* ------------------------------------------------------- program constants
\* 24 * 60 * 60 * 1000, the offset saveSnapToFirestore adds to Date.now()
TTL == 24 * 60 * 60 * 1000

\* ---------------------------------------------------------------- strings
s_art == <<97, 114, 116>>
s_Art == <<65, 114, 116>>
s_music == <<109, 117, 115, 105, 99>>
s_Live == <<76, 105, 118, 101>>
s_misc == <<109, 105, 115, 99>>
s_museum == <<109, 117, 115, 101, 117, 109>>
s_artisan == <<97, 114, 116, 105, 115, 97, 110>>
s_emu == <<101, 109, 117>>
s_mu == <<109, 117>>
s_Art_padded == <<32, 65, 114, 116, 32>>
s_zz == <<122, 122>>
s_blank == <<32, 32>>
s_hi == <<104, 105>>
s_yo_padded == <<32, 121, 111, 32>>
s_yo == <<121, 111>>
s_ART == <<65, 82, 84>>
s_Art_spaced == <<32, 32, 65, 114, 116, 32>>
s_Music == <<77, 117, 115, 105, 99>>
s_Photography == <<80, 104, 111, 116, 111, 103, 114, 97, 112, 104, 121>>
s_Technology == <<84, 101, 99, 104, 110, 111, 108, 111, 103, 121>>
s_a == <<97>>
s_b == <<98>>
s_c == <<99>>
s_d == <<100>>
s_e_comma_f == <<101, 44, 102>>
s_h_left == <<104, 32, 108, 101, 102, 116>>
s_m_left == <<109, 32, 108, 101, 102, 116>>
s_Expired == <<69, 120, 112, 105, 114, 101, 100>>
s_1h_left == <<49, 104, 32, 108, 101, 102, 116>>

\* String.prototype.toLowerCase on one code unit
LowerUnit(c) == IF c \in 65..90 THEN c + 32 ELSE c

\* String.prototype.toLowerCase
ToLowerCase(s) == [i \in 1..Len(s) |-> LowerUnit(s[i])]

\* white space as String.prototype.trim sees it (tab, LF, VT, FF, CR, space, NBSP)
IsSpace(c) == c \in {9, 10, 11, 12, 13, 32, 160}

\* String.prototype.trim
Trim(s) ==
    LET keep == {i \in 1..Len(s) : ~IsSpace(s[i])}
    IN  IF keep = {} THEN <<>>
        ELSE LET lo == CHOOSE i \in keep : \A j \in keep : i <= j
                 hi == CHOOSE i \in keep : \A j \in keep : i >= j
             IN  SubSeq(s, lo, hi)

\* String.prototype.includes
Includes(s, sub) ==
    \E i \in 0..(Len(s) - Len(sub)) : SubSeq(s, i + 1, i + Len(sub)) = sub

\* tags.map(tag => tag.toLowerCase())
MapToLowerCase(tags) == [i \in 1..Len(tags) |-> ToLowerCase(tags[i])]

Range(seq) == {seq[i] : i \in 1..Len(seq)}

\* Array.prototype.sort, which is stable: before[<<a, b>>] says the
\* comparator puts a strictly before b; elements it does not separate keep
\* their order
StableSort(seq, before) ==
    LET n == Len(seq)
        Prec(j, i) == \/ before[<<seq[j], seq[i]>>]
                      \/ (~before[<<seq[i], seq[j]>>] /\ j < i)
        Rank(i) == Cardinality({j \in 1..n : Prec(j, i)}) + 1
    IN  [k \in 1..n |-> seq[CHOOSE i \in 1..n : Rank(i) = k]]

\* an optional value: <<>> is null/undefined, <<v>> is v
Some(v) == <<v>>
IsNone(o) == o = <<>>
Get(o) == o[1]

\* a tag that is not a string (null, a number): no code unit is negative
NotAString == <<-1>>
\* an interests field that is absent from the document
Undefined == <<<<-2>>>>
IsString(tag) == \A i \in 1..Len(tag) : tag[i] >= 0
\* an interests value on which .map(tag => tag.toLowerCase()) throws a
\* TypeError: one that is not an array of strings
IsWrongTyped(interests) == \E i \in 1..Len(interests) : ~IsString(interests[i])
\* data.interests ?? [] and data.interests || []
OrEmpty(interests) == IF interests = Undefined THEN <<>> ELSE interests

\* ------------------------------------------------------------------ inputs
Me == "u1"                       \* auth.currentUser.uid on the observed device
Users == {"u1", "u2"}

\* the caption typed in the camera's caption modal
Captions == {s_hi}
\* the text typed in the edit-caption modal
EditedCaptions == {s_yo_padded}
\* the camera screen's tags state: typed through TagEditor, or picked from
\* the AI suggestions (whose case is whatever the service returned)
TypedTagLists == {<<>>, <<s_music, s_Live>>}
\* the profile's interests the Discover screen can be given: none, or a
\* name picked at sign-up
FavoriteLists == {<<>>, <<s_Art>>}
\* texts submitted in the Discover search box
SearchTexts == {s_mu, s_Art_padded, s_zz, s_blank}
\* localTags of EditTagsModal when Save is pressed
EditorTagLists == {<<>>, <<s_art>>}

\* ------------------------------------------------------------------- state
VARIABLES
    now,            \* the wall clock, Date.now()
    snapsCol,       \* the snaps collection: document id -> document
    saving,         \* per user: a saveSnapToFirestore between its clock reads
    capEdit,        \* handleSaveCaption awaiting updateDoc, with its closure
    migr,           \* migrateInterestsToLowercase awaiting its batch commit
    feedQ,          \* the bound of the feed query, fixed by loadSnaps
    lastDelivered,  \* the snapshot the feed listener delivered last
    callbacks,      \* running onSnapshot callbacks, in arrival order
    storeSnaps      \* useStore.snaps

\* DiscoverScreen
VARIABLES
    allTags,        \* the tag universe shown as chips
    tagsDelivered,  \* the collection the tag listener delivered last
    userInterests,  \* the profile's interests (favorites)
    selected,       \* the selected tag
    fetches,        \* fetchSnaps runs in flight, in start order
    discSnaps,      \* the displayed Discover list
    loading,        \* the Discover loading flag
    discRun,        \* what the run that set discSnaps read: selection, query
                    \* bound and collection (empty after a failed run)
    lastSearch      \* the text and universe of the search that set selected

discVars == <<allTags, tagsDelivered, userInterests, selected, fetches,
              discSnaps, loading, discRun, lastSearch>>

\* profiles, the Settings and camera screens, notifications, the time label
VARIABLES
    usersCol,          \* the users collection: uid -> the profile's interests
    settingsInterests, \* SettingsScreen's interests state
    camTags,           \* CameraScreen's tags state
    notifCol,          \* the notifications collection: id -> document
    notification,      \* FeedScreen's notification state (the banner)
    dismissing,        \* dismissNotification calls awaiting updateDoc
    seenWrites,        \* per notification: the seen = true writes of dismissals
    shownLabel,        \* the remaining-time label a card rendered last
    normIn,            \* a raw tag list handed to a normalisation
    normOut            \* the list the normalisation stored, and by which path

\* the session, the upload, delete and reply handlers, the alert
VARIABLES
    authUser,          \* auth.currentUser: the signed-in uid
    storeUser,         \* useStore.user
    storeUserData,     \* useStore.userData
    handlers,          \* handleAuthStateChange invocations at an await
    signingUp,         \* AuthScreen.handleAuth between its two awaits
    uploading,         \* CameraScreen's uploading flag
    uploadRun,         \* uploadSnap at an await
    deletingSnap,      \* deleteSnap awaiting deleteDoc
    repliesCol,        \* the replies collection
    replyRun,          \* sendReply at an await
    alert              \* the Alert.alert shown last

extVars == <<usersCol, settingsInterests, camTags, notifCol, notification,
             dismissing, seenWrites, shownLabel, normIn, normOut,
             authUser, storeUser, storeUserData,
             handlers, signingUp, uploading, uploadRun,
             deletingSnap, repliesCol, replyRun, alert>>

vars == <<now, snapsCol, saving, capEdit, migr, feedQ, lastDelivered,
          callbacks, storeSnaps, discVars, extVars>>

\* no profile is stored, no screen of the third group has been used, nobody
\* is signed in, no handler is running, no alert is shown
InitExt ==
    /\ usersCol = <<>>
    /\ settingsInterests = <<>>
    /\ camTags = <<>>
    /\ notifCol = <<>>
    /\ notification = <<>>
    /\ dismissing = <<>>
    /\ seenWrites = <<>>
    /\ shownLabel = <<>>
    /\ normIn = <<>>
    /\ normOut = <<>>
    /\ authUser = <<>>
    /\ storeUser = <<>>
    /\ storeUserData = <<>>
    /\ handlers = <<>>
    /\ signingUp = <<>>
    /\ uploading = FALSE
    /\ uploadRun = <<>>
    /\ deletingSnap = <<>>
    /\ repliesCol = <<>>
    /\ replyRun = <<>>
    /\ alert = <<>>

\* --------------------------------------------------------------- the clock
Ticks(t) == (t \div TTL) + (t % TTL)

\* the wall clock advances, by a millisecond or by a day
Tick ==
    /\ Ticks(now) < MaxTicks
    /\ \E d \in {1, TTL} : now' = now + d
    /\ UNCHANGED <<snapsCol, saving, capEdit, migr, feedQ, lastDelivered,
                   callbacks, storeSnaps,
                   discVars, extVars>>

\* ---------------------------------------------------------------- publish
Ids == DOMAIN snapsCol

\* addDoc: the store assigns the id
AddDoc(col, data) ==
    LET id == Cardinality(DOMAIN col) + 1
    IN  [i \in (DOMAIN col) \cup {id} |->
            IF i = id THEN [data EXCEPT !.id = id] ELSE col[i]]

\* interests of a new snap: tags.length ? tags.map(toLowerCase) : ["misc"]
SnapInterests(tags) ==
    IF Len(tags) # 0 THEN MapToLowerCase(tags) ELSE <<s_misc>>

\* Timestamp.fromMillis(Date.now() + 24 * 60 * 60 * 1000)
ExpiresAtFrom(t) == t + TTL

PendingSaves == Cardinality({u \in Users : ~IsNone(saving[u])})

\* saveSnapToFirestore builds snapData: the object literal is evaluated field
\* by field, and expiresAt reads Date.now()
SaveSnapBegin(u, tags) ==
    /\ IsNone(saving[u])
    /\ Cardinality(Ids) + PendingSaves < MaxPosts
    /\ \E c \in Captions :
          saving' = [saving EXCEPT ![u] =
                        Some([caption |-> c, interests |-> SnapInterests(tags),
                              expiresAt |-> ExpiresAtFrom(now)])]
    /\ UNCHANGED <<now, snapsCol, capEdit, migr, feedQ, lastDelivered,
                   callbacks, storeSnaps,
                   discVars, extVars>>

\* the earlier saveSnapToFirestore: interests are the profile's interests
SaveSnapLegacyBegin(u, ints) ==
    /\ IsNone(saving[u])
    /\ Cardinality(Ids) + PendingSaves < MaxPosts
    /\ \E c \in Captions :
          saving' = [saving EXCEPT ![u] =
                        Some([caption |-> c, interests |-> ints,
                              expiresAt |-> ExpiresAtFrom(now)])]
    /\ UNCHANGED <<now, snapsCol, capEdit, migr, feedQ, lastDelivered,
                   callbacks, storeSnaps,
                   discVars, extVars>>

\* ... then createdAt reads the clock again (Timestamp.now()), and addDoc
\* writes the document
SaveSnapCommit(u) ==
    /\ ~IsNone(saving[u])
    /\ LET d == Get(saving[u])
       IN  snapsCol' = AddDoc(snapsCol,
                [id |-> 0, owner |-> u, caption |-> d.caption,
                 interests |-> d.interests, expiresAt |-> d.expiresAt,
                 createdAt |-> now])
    /\ saving' = [saving EXCEPT ![u] = <<>>]
    /\ UNCHANGED <<now, capEdit, migr, feedQ, lastDelivered, callbacks,
                   storeSnaps,
                   discVars, extVars>>

\* ------------------------------------------------------------ caption edit
\* a caption update that also renews the expiry
CaptionUpdateRenewing(d, text) ==
    [d EXCEPT !.caption = Trim(text), !.expiresAt = ExpiresAtFrom(now)]

\* updateDoc(doc(db, "snaps", id), { caption: editedCaption.trim() })
CaptionUpdate(d, text) == [d EXCEPT !.caption = Trim(text)]

\* handleSaveCaption up to its await: selectedSnap is a snap of the displayed
\* feed that the signed-in user owns (the Edit button is shown to the owner
\* only); the handler closes over the snaps of the render it was made in
SaveCaptionBegin ==
    /\ IsNone(capEdit)
    /\ \E i \in 1..Len(storeSnaps), text \in EditedCaptions :
          LET sel == storeSnaps[i]
          IN  /\ sel.owner = Me
              /\ sel.id \in Ids
              /\ snapsCol' = [snapsCol EXCEPT
                                ![sel.id] = CaptionUpdate(snapsCol[sel.id], text)]
              /\ capEdit' = Some([id |-> sel.id, text |-> text,
                                  snaps |-> storeSnaps])
    /\ UNCHANGED <<now, saving, migr, feedQ, lastDelivered, callbacks,
                   storeSnaps,
                   discVars, extVars>>

\* handleSaveCaption after the await: setSnaps(snaps.map(...)) on the closure
SaveCaptionFinish ==
    /\ ~IsNone(capEdit)
    /\ LET e == Get(capEdit)
       IN  storeSnaps' = [i \in 1..Len(e.snaps) |->
                             IF e.snaps[i].id = e.id
                             THEN [e.snaps[i] EXCEPT !.caption = Trim(e.text)]
                             ELSE e.snaps[i]]
    /\ capEdit' = <<>>
    /\ UNCHANGED <<now, snapsCol, saving, migr, feedQ, lastDelivered,
                   callbacks,
                   discVars, extVars>>

\* ---------------------------------------------------------------- tag edit
\* updateDoc(doc(db, "snaps", snapId), { interests: finalTags })
TagsUpdate(d, localTags) ==
    [d EXCEPT !.interests = IF Len(localTags) # 0 THEN localTags ELSE <<s_misc>>]

\* EditTagsModal.handleSave, opened from a displayed snap the user owns
EditTagsSave ==
    /\ \E i \in 1..Len(storeSnaps), localTags \in EditorTagLists :
          LET sel == storeSnaps[i]
          IN  /\ sel.owner = Me
              /\ sel.id \in Ids
              /\ snapsCol' = [snapsCol EXCEPT
                                ![sel.id] = TagsUpdate(snapsCol[sel.id], localTags)]
    /\ UNCHANGED <<now, saving, capEdit, migr, feedQ, lastDelivered,
                   callbacks, storeSnaps,
                   discVars, extVars>>

\* --------------------------------------------------------------- migration
\* the update migrateInterestsToLowercase batches for one snap document
MigrateUpdate(d, lowercaseInterests) == [d EXCEPT !.interests = lowercaseInterests]

\* the snaps pass reads the collection and batches an update for every
\* document whose interests change when lowercased
MigrateRead ==
    /\ IsNone(migr)
    /\ LET changed == {id \in Ids :
                         MapToLowerCase(snapsCol[id].interests) # snapsCol[id].interests}
       IN  /\ changed # {}
           /\ migr' = Some([id \in changed |->
                               MapToLowerCase(snapsCol[id].interests)])
    /\ UNCHANGED <<now, snapsCol, saving, capEdit, feedQ, lastDelivered,
                   callbacks, storeSnaps,
                   discVars, extVars>>

\* snapBatch.commit()
MigrateCommit ==
    /\ ~IsNone(migr)
    /\ LET batch == Get(migr)
       IN  snapsCol' = [id \in Ids |->
                           IF id \in DOMAIN batch
                           THEN MigrateUpdate(snapsCol[id], batch[id])
                           ELSE snapsCol[id]]
    /\ migr' = <<>>
    /\ UNCHANGED <<now, saving, capEdit, feedQ, lastDelivered, callbacks,
                   storeSnaps,
                   discVars, extVars>>

\* -------------------------------------------------------------------- feed
\* where('expiresAt', '>', t), orderBy('expiresAt', 'desc'); documents with
\* the same expiresAt follow in descending id order
FeedQuery(col, t) ==
    LET live == {id \in DOMAIN col : col[id].expiresAt > t}
        Before(a, b) == \/ col[a].expiresAt > col[b].expiresAt
                        \/ (col[a].expiresAt = col[b].expiresAt /\ a > b)
        rank(id) == Cardinality({j \in live : Before(j, id)}) + 1
    IN  [k \in 1..Cardinality(live) |-> col[CHOOSE id \in live : rank(id) = k]]

\* snapsData of the callback, one entry per document:
\* { id, ...data, interests: data.interests || [] }
SnapsData(docs) ==
    [i \in 1..Len(docs) |-> [docs[i] EXCEPT !.interests = OrEmpty(@)]]

\* FeedScreen mounts: loadSnaps builds the query with Timestamp.now() and
\* subscribes
FeedMount ==
    /\ IsNone(feedQ)
    /\ feedQ' = Some(now)
    /\ UNCHANGED <<now, snapsCol, saving, capEdit, migr, lastDelivered,
                   callbacks, storeSnaps,
                   discVars, extVars>>

\* the listener delivers the query's current result (the first one, or a
\* changed one) and the async callback starts; with no document to look up
\* it runs to setSnaps at once
FeedOnSnapshot ==
    /\ ~IsNone(feedQ)
    /\ Len(callbacks) < MaxCallbacks
    /\ LET docs == FeedQuery(snapsCol, Get(feedQ))
       IN  /\ lastDelivered # Some(docs)
           /\ lastDelivered' = Some(docs)
           /\ IF docs = <<>>
              THEN storeSnaps' = <<>> /\ UNCHANGED callbacks
              ELSE /\ callbacks' = Append(callbacks, [docs |-> docs, k |-> 0])
                   /\ UNCHANGED storeSnaps
    /\ UNCHANGED <<now, snapsCol, saving, capEdit, migr, feedQ,
                   discVars, extVars>>

\* one await getDoc(users/owner) of a running callback resolves; after the
\* last one the callback calls setSnaps(snapsData)
FeedLookup(i) ==
    /\ i \in 1..Len(callbacks)
    /\ LET cb == callbacks[i]
       IN  IF cb.k + 1 < Len(cb.docs)
           THEN /\ callbacks' = [callbacks EXCEPT ![i].k = cb.k + 1]
                /\ UNCHANGED storeSnaps
           ELSE /\ storeSnaps' = SnapsData(cb.docs)
                /\ callbacks' = SubSeq(callbacks, 1, i - 1)
                                  \o SubSeq(callbacks, i + 1, Len(callbacks))
    /\ UNCHANGED <<now, snapsCol, saving, capEdit, migr, feedQ, lastDelivered,
                   discVars, extVars>>

\* ---------------------------------------------------------- tag universe
\* lodash uniq: the first occurrence of every value, in order
Uniq(seq) ==
    LET keep == {i \in 1..Len(seq) : \A j \in 1..(i - 1) : seq[j] # seq[i]}
    IN  [k \in 1..Cardinality(keep) |->
            seq[CHOOSE i \in keep : Cardinality({j \in keep : j < i}) = k - 1]]

\* the order of Array.prototype.sort without a comparator: strings compared
\* code unit by code unit
RECURSIVE StrBefore(_, _)
StrBefore(a, b) ==
    IF b = <<>> THEN FALSE
    ELSE IF a = <<>> THEN TRUE
    ELSE IF Head(a) # Head(b) THEN Head(a) < Head(b)
    ELSE StrBefore(Tail(a), Tail(b))

\* snap.docs of a collection listener: every document, in id order
DocsById(col) ==
    [k \in 1..Cardinality(DOMAIN col) |->
        col[CHOOSE id \in DOMAIN col :
                Cardinality({j \in DOMAIN col : j < id}) = k - 1]]

\* docs.flatMap(d => d.data().interests ?? [])
RECURSIVE FlatInterests(_)
FlatInterests(docs) ==
    IF docs = <<>> THEN <<>>
    ELSE OrEmpty(Head(docs).interests) \o FlatInterests(Tail(docs))

\* the tag listener's aggregation without its sort
TagAggregateUnsorted(col) == Uniq(MapToLowerCase(FlatInterests(DocsById(col))))

\* the aggregation of the earlier version: uniq(everyTag).sort()
TagAggregateDocsNoLower(docs) ==
    LET tags == Uniq(FlatInterests(docs))
    IN  StableSort(tags, [p \in Range(tags) \X Range(tags) |->
                              StrBefore(p[1], p[2])])

\* the aggregation without its sort
TagAggregateDocsUnsorted(docs) == Uniq(MapToLowerCase(FlatInterests(docs)))

\* uniq(everyTag.map(toLowerCase)).sort() over snap.docs
TagAggregateDocs(docs) ==
    LET tags == Uniq(MapToLowerCase(FlatInterests(docs)))
    IN  StableSort(tags, [p \in Range(tags) \X Range(tags) |->
                              StrBefore(p[1], p[2])])

\* the listener's callback on a collection
TagAggregate(col) == TagAggregateDocs(DocsById(col))

\* the chips with the universe appended whole
DisplayTagsUnfiltered(interests, tags) == interests \o tags

\* [...userInterests, ...allTags.filter(t => !userInterests.includes(t))]
DisplayTags(interests, tags) ==
    interests \o SelectSeq(tags, LAMBDA t : t \notin Range(interests))

\* ------------------------------------------------------------ fetchSnaps
\* the query without its where clause
DiscoverQueryAll(col, t) ==
    LET all == DOMAIN col
        Before(a, b) == \/ col[a].expiresAt < col[b].expiresAt
                        \/ (col[a].expiresAt = col[b].expiresAt /\ a < b)
        rank(id) == Cardinality({j \in all : Before(j, id)}) + 1
    IN  [k \in 1..Cardinality(all) |-> col[CHOOSE id \in all : rank(id) = k]]

\* query(collection(db, "snaps"), where("expiresAt", ">", t)): a range filter
\* orders the result by its field, ascending, then by id
DiscoverQuery(col, t) ==
    LET live == {id \in DOMAIN col : col[id].expiresAt > t}
        Before(a, b) == \/ col[a].expiresAt < col[b].expiresAt
                        \/ (col[a].expiresAt = col[b].expiresAt /\ a < b)
        rank(id) == Cardinality({j \in live : Before(j, id)}) + 1
    IN  [k \in 1..Cardinality(live) |-> col[CHOOSE id \in live : rank(id) = k]]

\* the filter by exact membership: snap.interests.includes(selected)
MatchesExact(snap, sel) ==
    /\ sel # <<>>
    /\ \E i \in 1..Len(snap.interests) : snap.interests[i] = sel

\* the filter with the arguments of includes exchanged
MatchesReversed(snap, sel) ==
    /\ sel # <<>>
    /\ \E i \in 1..Len(snap.interests) :
          Includes(ToLowerCase(sel), ToLowerCase(snap.interests[i]))

\* the filter callback: false without a selection, else whether some
\* lowercased interest includes the lowercased selection
Matches(snap, sel) ==
    /\ sel # <<>>
    /\ \E i \in 1..Len(snap.interests) :
          Includes(ToLowerCase(snap.interests[i]), ToLowerCase(sel))

\* the comparator with its operands exchanged
ExpiresBeforeAsc(a, b) == a.expiresAt - b.expiresAt < 0

\* the sort comparator (a, b) => bTime - aTime puts a first when negative
ExpiresBefore(a, b) == b.expiresAt - a.expiresAt < 0

\* allSnaps of a run, one entry per document of the query's result:
\* { id, ..., interests: data.interests || [] }
AllSnaps(docs) ==
    [i \in 1..Len(docs) |-> [docs[i] EXCEPT !.interests = OrEmpty(@)]]

\* the filter callback throws: with a selection it maps toLowerCase over
\* the interests of every snap it visits
FilterThrows(allSnaps, sel) ==
    /\ sel # <<>>
    /\ \E i \in 1..Len(allSnaps) : IsWrongTyped(allSnaps[i].interests)

\* allSnaps.filter(...) and then .sort(...)
FetchResult(allSnaps, sel) ==
    LET kept == SelectSeq(allSnaps, LAMBDA snap : Matches(snap, sel))
    IN  StableSort(kept, [p \in Range(kept) \X Range(kept) |->
                              ExpiresBefore(p[1], p[2])])

\* a new run of the fetchSnaps effect: setLoading(true), the query is built
\* with Timestamp.now(), getDocs is awaited
StartFetch(sel) ==
    /\ Len(fetches) < MaxFetches
    /\ fetches' = Append(fetches, [sel |-> sel, qnow |-> now, seen |-> <<>>, k |-> 0])
    /\ loading' = TRUE

\* setSelected: a changed selection re-runs the fetchSnaps effect
SetSelected(tag) ==
    IF tag = selected
    THEN UNCHANGED <<selected, fetches, loading>>
    ELSE selected' = tag /\ StartFetch(tag)

\* the effect on [allTags, userInterests]: without a selection, select the
\* first displayed tag
AutoSelect(interests, tags) ==
    IF selected = <<>> /\ Len(tags) # 0
    THEN SetSelected(DisplayTags(interests, tags)[1])
    ELSE UNCHANGED <<selected, fetches, loading>>

\* the listener on the snaps collection delivers it; the universe is rebuilt
TagSnapshot ==
    /\ tagsDelivered # Some(snapsCol)
    /\ tagsDelivered' = Some(snapsCol)
    /\ IF IsWrongTyped(FlatInterests(DocsById(snapsCol)))
       THEN \* tag.toLowerCase() throws, the callback ends before setAllTags
            UNCHANGED <<allTags, selected, fetches, loading>>
       ELSE /\ allTags' = TagAggregate(snapsCol)
            /\ AutoSelect(userInterests, allTags')
    /\ UNCHANGED <<userInterests, discSnaps, discRun, lastSearch>>
    /\ UNCHANGED <<now, snapsCol, saving, capEdit, migr, feedQ, lastDelivered,
                   callbacks, storeSnaps, extVars>>

\* the listener on the profile document delivers data?.interests || []
UserSnapshot(ints) ==
    /\ ints # userInterests
    /\ userInterests' = ints
    /\ AutoSelect(ints, allTags)
    /\ UNCHANGED <<allTags, tagsDelivered, discSnaps, discRun, lastSearch>>
    /\ UNCHANGED <<now, snapsCol, saving, capEdit, migr, feedQ, lastDelivered,
                   callbacks, storeSnaps, extVars>>

\* a chip is pressed
SelectChip(tag) ==
    /\ tag \in Range(DisplayTags(userInterests, allTags))
    /\ tag # selected
    /\ SetSelected(tag)
    /\ lastSearch' = <<>>
    /\ UNCHANGED <<allTags, tagsDelivered, userInterests, discSnaps, discRun>>
    /\ UNCHANGED <<now, snapsCol, saving, capEdit, migr, feedQ, lastDelivered,
                   callbacks, storeSnaps, extVars>>

\* Array.prototype.find: the first element among those passing the test, or
\* undefined
Find(seq, passing) ==
    LET hits == {i \in 1..Len(seq) : seq[i] \in passing}
    IN  IF hits = {} THEN <<>>
        ELSE Some(seq[CHOOSE i \in hits : \A j \in hits : i <= j])

\* a || b for strings that may be undefined: undefined and "" are falsy
OrElse(o, other) == IF ~IsNone(o) /\ Get(o) # <<>> THEN Get(o) ELSE other

\* the resolution with the partial match preferred
ResolveSearchPartialFirst(text, tags) ==
    LET searchTerm == ToLowerCase(Trim(text))
        exactMatch == Find(tags, {tag \in Range(tags) : ToLowerCase(tag) = searchTerm})
        partialMatch == Find(tags, {tag \in Range(tags) : Includes(ToLowerCase(tag), searchTerm)})
    IN  OrElse(partialMatch, OrElse(exactMatch, searchTerm))

\* exactMatch || partialMatch || searchTerm
ResolveSearch(text, tags) ==
    LET searchTerm == ToLowerCase(Trim(text))
        exactMatch == Find(tags, {tag \in Range(tags) : ToLowerCase(tag) = searchTerm})
        partialMatch == Find(tags, {tag \in Range(tags) : Includes(ToLowerCase(tag), searchTerm)})
    IN  OrElse(exactMatch, OrElse(partialMatch, searchTerm))

\* onSubmitEditing of the search box, for a search text that is not blank
SubmitSearch(text) ==
    /\ Trim(text) # <<>>
    /\ SetSelected(ResolveSearch(text, allTags))
    /\ lastSearch' = Some([text |-> text, tags |-> allTags])
    /\ UNCHANGED <<allTags, tagsDelivered, userInterests, discSnaps, discRun>>
    /\ UNCHANGED <<now, snapsCol, saving, capEdit, migr, feedQ, lastDelivered,
                   callbacks, storeSnaps, extVars>>

RemoveAt(seq, i) == SubSeq(seq, 1, i - 1) \o SubSeq(seq, i + 1, Len(seq))

\* the end of a run: filter, sort, setSnaps(filteredSnaps), setLoading(false)
FinishFetch(i, f) ==
    /\ LET allSnaps == AllSnaps(DiscoverQuery(Get(f.seen), f.qnow))
       IN  discSnaps' = IF FilterThrows(allSnaps, f.sel)
                        THEN <<>>   \* the catch block: setSnaps([])
                        ELSE FetchResult(allSnaps, f.sel)
    /\ discRun' = Some([sel |-> f.sel, qnow |-> f.qnow, seen |-> Get(f.seen)])
    /\ loading' = FALSE
    /\ fetches' = RemoveAt(fetches, i)

\* getDocs resolves with the documents the query matches now; with none to
\* look up, the run goes on to its end
FetchGetDocs(i) ==
    /\ i \in 1..Len(fetches)
    /\ IsNone(fetches[i].seen)
    /\ LET f == [fetches[i] EXCEPT !.seen = Some(snapsCol)]
       IN  IF DiscoverQuery(snapsCol, f.qnow) = <<>>
           THEN FinishFetch(i, f)
           ELSE /\ fetches' = [fetches EXCEPT ![i] = f]
                /\ UNCHANGED <<discSnaps, discRun, loading>>
    /\ UNCHANGED <<allTags, tagsDelivered, userInterests, selected, lastSearch>>
    /\ UNCHANGED <<now, snapsCol, saving, capEdit, migr, feedQ, lastDelivered,
                   callbacks, storeSnaps, extVars>>

\* getDocs rejects: the catch block shows an empty list
FetchFail(i) ==
    /\ i \in 1..Len(fetches)
    /\ IsNone(fetches[i].seen)
    /\ discSnaps' = <<>>
    /\ discRun' = <<>>
    /\ loading' = FALSE
    /\ fetches' = RemoveAt(fetches, i)
    /\ UNCHANGED <<allTags, tagsDelivered, userInterests, selected, lastSearch>>
    /\ UNCHANGED <<now, snapsCol, saving, capEdit, migr, feedQ, lastDelivered,
                   callbacks, storeSnaps, extVars>>

\* one await getDoc(users/owner) of a run resolves; after the last one the
\* run goes on to its end
FetchLookup(i) ==
    /\ i \in 1..Len(fetches)
    /\ ~IsNone(fetches[i].seen)
    /\ LET f == fetches[i]
       IN  IF f.k + 1 < Len(DiscoverQuery(Get(f.seen), f.qnow))
           THEN /\ fetches' = [fetches EXCEPT ![i].k = f.k + 1]
                /\ UNCHANGED <<discSnaps, discRun, loading>>
           ELSE FinishFetch(i, f)
    /\ UNCHANGED <<allTags, tagsDelivered, userInterests, selected, lastSearch>>
    /\ UNCHANGED <<now, snapsCol, saving, capEdit, migr, feedQ, lastDelivered,
                   callbacks, storeSnaps, extVars>>

\* ------------------------------------------------------------ specification
Init ==
    /\ now = 0
    /\ snapsCol = <<>>
    /\ saving = [u \in Users |-> <<>>]
    /\ capEdit = <<>>
    /\ migr = <<>>
    /\ feedQ = <<>>
    /\ lastDelivered = <<>>
    /\ callbacks = <<>>
    /\ storeSnaps = <<>>
    /\ allTags = <<>>
    /\ tagsDelivered = <<>>
    /\ userInterests = <<>>
    /\ selected = <<>>
    /\ fetches = <<>>
    /\ discSnaps = <<>>
    /\ loading = FALSE
    /\ discRun = <<>>
    /\ lastSearch = <<>>
    /\ InitExt

\* publishing, the clock and the feed listener
Next ==
    \/ Tick
    \/ \E u \in Users : SaveSnapBegin(u, <<>>)
    \/ \E u \in Users : SaveSnapCommit(u)
    \/ FeedMount
    \/ FeedOnSnapshot
    \/ \E i \in 1..MaxCallbacks : FeedLookup(i)

Spec == Init /\ [][Next]_vars

\* ------------------------------------------------- the Discover screen
\* a snap document as saveSnapToFirestore writes it, Date.now() read at tExp
\* and Timestamp.now() at tCreated
SnapData(u, interests, tExp, tCreated) ==
    [id |-> 0, owner |-> u, caption |-> s_hi, interests |-> interests,
     expiresAt |-> ExpiresAtFrom(tExp), createdAt |-> tCreated]

\* collections the screen can find when it mounts, with the time of mounting
DiscoverStores ==
    { [now |-> TTL,
       col |-> AddDoc(AddDoc(<<>>,
                 SnapData("u1", SnapInterests(<<s_music, s_art>>), 0, 0)),
                 SnapData("u2", SnapInterests(<<s_museum, s_art>>), TTL, TTL))],
      [now |-> 1,
       col |-> AddDoc(AddDoc(<<>>,
                 SnapData("u1", <<s_Art>>, 0, 0)),
                 SnapData("u2", SnapInterests(<<s_artisan, s_emu, s_mu>>), 1, 1))] }

\* DiscoverScreen has mounted: the listeners are subscribed and the first run
\* of the fetchSnaps effect, without a selection, awaits getDocs
InitDiscover ==
    /\ \E st \in DiscoverStores : now = st.now /\ snapsCol = st.col
    /\ saving = [u \in Users |-> <<>>]
    /\ capEdit = <<>>
    /\ migr = <<>>
    /\ feedQ = <<>>
    /\ lastDelivered = <<>>
    /\ callbacks = <<>>
    /\ storeSnaps = <<>>
    /\ allTags = <<>>
    /\ tagsDelivered = <<>>
    /\ userInterests = <<>>
    /\ selected = <<>>
    /\ fetches = <<[sel |-> <<>>, qnow |-> now, seen |-> <<>>, k |-> 0]>>
    /\ discSnaps = <<>>
    /\ loading = TRUE
    /\ discRun = <<>>
    /\ lastSearch = <<>>
    /\ InitExt

NextDiscover ==
    \/ Tick
    \/ TagSnapshot
    \/ \E ints \in FavoriteLists : UserSnapshot(ints)
    \/ \E tag \in Range(DisplayTags(userInterests, allTags)) : SelectChip(tag)
    \/ \E text \in SearchTexts : SubmitSearch(text)
    \/ \E i \in 1..MaxFetches : FetchGetDocs(i)
    \/ \E i \in 1..MaxFetches : FetchFail(i)
    \/ \E i \in 1..MaxFetches : FetchLookup(i)

SpecDiscover == InitDiscover /\ [][NextDiscover]_vars

\* ------------------------------------------------------ the update paths
\* collections FeedScreen can be showing when the user starts editing
EditStores ==
    { AddDoc(AddDoc(<<>>,
        SnapData("u1", SnapInterests(<<s_music, s_Live>>), 0, 0)),
        SnapData("u2", <<s_Art>>, 0, 1)),
      AddDoc(AddDoc(<<>>,
        SnapData("u1", <<s_Art>>, 0, 0)),
        SnapData("u1", SnapInterests(<<>>), 1, 1)) }

\* FeedScreen shows the collection's posts, nothing is in flight
InitEdit ==
    /\ now = 1
    /\ snapsCol \in EditStores
    /\ saving = [u \in Users |-> <<>>]
    /\ capEdit = <<>>
    /\ migr = <<>>
    /\ feedQ = Some(1)
    /\ lastDelivered = Some(FeedQuery(snapsCol, 1))
    /\ callbacks = <<>>
    /\ storeSnaps = FeedQuery(snapsCol, 1)
    /\ allTags = <<>>
    /\ tagsDelivered = <<>>
    /\ userInterests = <<>>
    /\ selected = <<>>
    /\ fetches = <<>>
    /\ discSnaps = <<>>
    /\ loading = FALSE
    /\ discRun = <<>>
    /\ lastSearch = <<>>
    /\ InitExt

NextEdit ==
    \/ SaveCaptionBegin
    \/ SaveCaptionFinish
    \/ EditTagsSave
    \/ MigrateRead
    \/ MigrateCommit

SpecEdit == InitEdit /\ [][NextEdit]_vars

\* ------------------------------------------------- tag-list normalisation
\* the most interests a profile keeps: slice(0, 5)
MaxInterests == 5

\* Array.prototype.slice(0, n)
SliceTo(seq, n) == SubSeq(seq, 1, IF Len(seq) < n THEN Len(seq) ELSE n)

\* TagEditor.handleAddTag: the trimmed, lowercased input is appended unless
\* it is empty or already in tags; the result is what onChange receives
\* (tags itself when onChange is not called)
HandleAddTag(tags, inputValue) ==
    LET newTag == ToLowerCase(Trim(inputValue))
    IN  IF newTag # <<>> /\ newTag \notin Range(tags)
        THEN Append(tags, newTag)
        ELSE tags

\* text.split(',')[0]
BeforeComma(text) ==
    LET commas == {i \in 1..Len(text) : text[i] = 44}
    IN  IF commas = {} THEN text
        ELSE SubSeq(text, 1, (CHOOSE i \in commas : \A j \in commas : i <= j) - 1)

\* TagEditor.handleTextChange followed by Enter (handleAddTag): a text with
\* a comma adds what precedes the comma and clears the input, any other text
\* becomes the lowercased inputValue, which Enter then adds
TagEditorEnter(tags, text) ==
    IF 44 \in Range(text)
    THEN HandleAddTag(tags, BeforeComma(text))
    ELSE HandleAddTag(tags, ToLowerCase(text))

\* SettingsScreen.handleInterestsChange: a list of more than five is refused
HandleInterestsChange(interests, newTags) ==
    IF Len(newTags) <= MaxInterests THEN newTags ELSE interests

\* handleSave with the slice starting one element late
SettingsNormalizeSkipFirst(interests) ==
    MapToLowerCase(SubSeq(interests, 2,
        IF Len(interests) < MaxInterests + 1 THEN Len(interests)
        ELSE MaxInterests + 1))

\* the interests SettingsScreen.handleSave stores:
\* interests.slice(0, 5).map(i => i.toLowerCase())
SettingsNormalize(interests) == MapToLowerCase(SliceTo(interests, MaxInterests))

\* uniqueInterests of migrateInterestsToLowercase:
\* Array.from(new Set(allInterests.map(toLowerCase))).slice(0, 5)
UniqueInterests(favorites, interests) ==
    SliceTo(Uniq(MapToLowerCase(favorites \o interests)), MaxInterests)

\* the raw tags are typed into the Settings TagEditor one after the other,
\* each passing handleInterestsChange
RECURSIVE EnterAll(_, _)
EnterAll(interests, raw) ==
    IF raw = <<>> THEN interests
    ELSE EnterAll(HandleInterestsChange(interests,
                      TagEditorEnter(interests, Head(raw))),
                  Tail(raw))

\* the pipeline with an editor that adds every typed text as it is
EnterAndSaveRaw(raw) == SettingsNormalize(SliceTo(raw, MaxInterests))

\* a raw list typed into an empty Settings TagEditor and saved
EnterAndSave(raw) == SettingsNormalize(EnterAll(<<>>, raw))

\* texts a user can type as one tag
RawTags == {s_Art_spaced, s_art, s_ART, s_music, s_blank}

\* the longest raw list of which every arrangement is tried
MaxRawLen == 2

\* raw lists of up to n tags
RECURSIVE RawListsUpTo(_)
RawListsUpTo(n) ==
    IF n = 0 THEN {<<>>}
    ELSE LET shorter == RawListsUpTo(n - 1)
         IN  shorter \cup {Append(l, t) : l \in shorter, t \in RawTags}

\* the raw lists handed to a normalisation: the short ones, the list of the
\* documented scenario, and lists of more than five different tags
RawLists ==
    RawListsUpTo(MaxRawLen)
        \cup {<<s_Art_spaced, s_art, s_ART, s_music>>,
              <<s_a, s_b, s_a, s_c, s_d, s_Art, s_music>>,
              <<s_a, s_b, s_c, s_d, s_art, s_ART, s_Art, s_music>>}

\* a normalisation has its input, nothing is stored yet
InitNormalize ==
    /\ now = 0
    /\ snapsCol = <<>>
    /\ saving = [u \in Users |-> <<>>]
    /\ capEdit = <<>>
    /\ migr = <<>>
    /\ feedQ = <<>>
    /\ lastDelivered = <<>>
    /\ callbacks = <<>>
    /\ storeSnaps = <<>>
    /\ allTags = <<>>
    /\ tagsDelivered = <<>>
    /\ userInterests = <<>>
    /\ selected = <<>>
    /\ fetches = <<>>
    /\ discSnaps = <<>>
    /\ loading = FALSE
    /\ discRun = <<>>
    /\ lastSearch = <<>>
    /\ usersCol = <<>>
    /\ settingsInterests = <<>>
    /\ camTags = <<>>
    /\ notifCol = <<>>
    /\ notification = <<>>
    /\ dismissing = <<>>
    /\ seenWrites = <<>>
    /\ shownLabel = <<>>
    /\ normIn \in RawLists
    /\ normOut = <<>>
    /\ authUser = <<>>
    /\ storeUser = <<>>
    /\ storeUserData = <<>>
    /\ handlers = <<>>
    /\ signingUp = <<>>
    /\ uploading = FALSE
    /\ uploadRun = <<>>
    /\ deletingSnap = <<>>
    /\ repliesCol = <<>>
    /\ replyRun = <<>>
    /\ alert = <<>>

\* the list is typed into the Settings TagEditor and saved
NormalizeByEditor ==
    /\ IsNone(normOut)
    /\ normOut' = Some([by |-> "editor", out |-> EnterAndSave(normIn)])
    /\ UNCHANGED <<now, snapsCol, saving, capEdit, migr, feedQ, lastDelivered,
                   callbacks, storeSnaps, discVars>>
    /\ UNCHANGED <<usersCol, settingsInterests, camTags, notifCol,
                   notification, dismissing, seenWrites, shownLabel, normIn,
                   authUser, storeUser, storeUserData,
                   handlers, signingUp, uploading, uploadRun,
                   deletingSnap, repliesCol, replyRun, alert>>

\* the list is a loaded profile that handleSave stores again
NormalizeBySave ==
    /\ IsNone(normOut)
    /\ normOut' = Some([by |-> "save", out |-> SettingsNormalize(normIn)])
    /\ UNCHANGED <<now, snapsCol, saving, capEdit, migr, feedQ, lastDelivered,
                   callbacks, storeSnaps, discVars>>
    /\ UNCHANGED <<usersCol, settingsInterests, camTags, notifCol,
                   notification, dismissing, seenWrites, shownLabel, normIn,
                   authUser, storeUser, storeUserData,
                   handlers, signingUp, uploading, uploadRun,
                   deletingSnap, repliesCol, replyRun, alert>>

\* the list is a profile's interests that the migration rewrites
NormalizeByMigration ==
    /\ IsNone(normOut)
    /\ normOut' = Some([by |-> "migration", out |-> UniqueInterests(<<>>, normIn)])
    /\ UNCHANGED <<now, snapsCol, saving, capEdit, migr, feedQ, lastDelivered,
                   callbacks, storeSnaps, discVars>>
    /\ UNCHANGED <<usersCol, settingsInterests, camTags, notifCol,
                   notification, dismissing, seenWrites, shownLabel, normIn,
                   authUser, storeUser, storeUserData,
                   handlers, signingUp, uploading, uploadRun,
                   deletingSnap, repliesCol, replyRun, alert>>

NextNormalize ==
    \/ NormalizeByEditor
    \/ NormalizeBySave
    \/ NormalizeByMigration

SpecNormalize == InitNormalize /\ [][NextNormalize]_vars

\* ---------------------------------------------------------------- profiles
\* selectedInterests of AuthScreen: names of INTERESTS, toggled on in any order
SignUpSelections == {<<>>, <<s_Art>>, <<s_Music, s_Art>>}

\* interests of defaultUserData
DefaultInterests == <<s_Photography, s_Technology>>

\* texts typed into the Settings TagEditor
SettingsTexts == {s_Art_spaced, s_e_comma_f}

\* setDoc(doc(db, 'users', uid), { interests, ... })
SetUserDoc(col, u, interests) ==
    [v \in (DOMAIN col) \cup {u} |-> IF v = u THEN interests ELSE col[v]]

\* the variables the profile actions leave alone
profFrame == <<now, snapsCol, saving, capEdit, migr, feedQ, lastDelivered,
               callbacks, storeSnaps, discVars, camTags, notifCol,
               notification, dismissing, seenWrites, shownLabel, normIn,
               normOut, authUser, storeUser, storeUserData,
               handlers, signingUp, uploading, uploadRun,
               deletingSnap, repliesCol, replyRun, alert>>

\* AuthScreen.handleAuth, signing up: the account is created and the profile
\* is stored with the selected names as they are
SignUp(u, selectedInterests) ==
    /\ u \notin DOMAIN usersCol
    /\ usersCol' = SetUserDoc(usersCol, u, selectedInterests)
    /\ UNCHANGED <<settingsInterests, profFrame>>

\* handleAuthStateChange for a user without a profile document: the default
\* profile is stored
DefaultProfile(u) ==
    /\ u \notin DOMAIN usersCol
    /\ usersCol' = SetUserDoc(usersCol, u, DefaultInterests)
    /\ UNCHANGED <<settingsInterests, profFrame>>

\* SettingsScreen's profile listener:
\* setInterests(existingInterests.slice(0, 5).map(toLowerCase))
SettingsLoad ==
    /\ Me \in DOMAIN usersCol
    /\ settingsInterests # MapToLowerCase(SliceTo(usersCol[Me], MaxInterests))
    /\ settingsInterests' = MapToLowerCase(SliceTo(usersCol[Me], MaxInterests))
    /\ UNCHANGED <<usersCol, profFrame>>

\* a text is typed into the Settings TagEditor and entered
SettingsType(text) ==
    /\ TagEditorEnter(settingsInterests, text) # settingsInterests
    /\ settingsInterests' =
          HandleInterestsChange(settingsInterests,
                                TagEditorEnter(settingsInterests, text))
    /\ UNCHANGED <<usersCol, profFrame>>

\* TagEditor.handleRemoveTag: a chip of the Settings TagEditor is pressed
SettingsRemove(tag) ==
    /\ tag \in Range(settingsInterests)
    /\ settingsInterests' =
          HandleInterestsChange(settingsInterests,
                                SelectSeq(settingsInterests, LAMBDA t : t # tag))
    /\ UNCHANGED <<usersCol, profFrame>>

\* SettingsScreen.handleSave: setDoc with merge
SettingsSave ==
    /\ usersCol' = SetUserDoc(usersCol, Me, SettingsNormalize(settingsInterests))
    /\ UNCHANGED <<settingsInterests, profFrame>>

\* nobody has signed up
InitProfile ==
    /\ now = 0
    /\ snapsCol = <<>>
    /\ saving = [u \in Users |-> <<>>]
    /\ capEdit = <<>>
    /\ migr = <<>>
    /\ feedQ = <<>>
    /\ lastDelivered = <<>>
    /\ callbacks = <<>>
    /\ storeSnaps = <<>>
    /\ allTags = <<>>
    /\ tagsDelivered = <<>>
    /\ userInterests = <<>>
    /\ selected = <<>>
    /\ fetches = <<>>
    /\ discSnaps = <<>>
    /\ loading = FALSE
    /\ discRun = <<>>
    /\ lastSearch = <<>>
    /\ InitExt

NextProfile ==
    \/ \E u \in Users, sel \in SignUpSelections : SignUp(u, sel)
    \/ \E u \in Users : DefaultProfile(u)
    \/ SettingsLoad
    \/ \E text \in SettingsTexts : SettingsType(text)
    \/ \E tag \in Range(settingsInterests) : SettingsRemove(tag)
    \/ SettingsSave

SpecProfile == InitProfile /\ [][NextProfile]_vars

\* ------------------------------------------------------------- tag chips
\* the chip row as the screen renders it
ChipRow == DisplayTags(userInterests, allTags)

\* DiscoverScreen's profile listener delivers the stored profile:
\* setUserInterests(data?.interests || [])
ProfileSnapshot ==
    UserSnapshot(IF Me \in DOMAIN usersCol THEN usersCol[Me] ELSE <<>>)

\* the collection DiscoverScreen finds when it mounts
ChipStore ==
    AddDoc(AddDoc(<<>>,
        SnapData("u1", SnapInterests(<<s_music, s_art>>), 0, 0)),
        SnapData("u2", <<s_Art, s_museum>>, 0, 1))

\* DiscoverScreen has mounted before the user has a profile: the listeners
\* are subscribed and the first run of the fetchSnaps effect awaits getDocs
InitChips ==
    /\ now = 1
    /\ snapsCol = ChipStore
    /\ saving = [u \in Users |-> <<>>]
    /\ capEdit = <<>>
    /\ migr = <<>>
    /\ feedQ = <<>>
    /\ lastDelivered = <<>>
    /\ callbacks = <<>>
    /\ storeSnaps = <<>>
    /\ allTags = <<>>
    /\ tagsDelivered = <<>>
    /\ userInterests = <<>>
    /\ selected = <<>>
    /\ fetches = <<[sel |-> <<>>, qnow |-> now, seen |-> <<>>, k |-> 0]>>
    /\ discSnaps = <<>>
    /\ loading = TRUE
    /\ discRun = <<>>
    /\ lastSearch = <<>>
    /\ InitExt

NextChips ==
    \/ \E sel \in SignUpSelections : SignUp(Me, sel)
    \/ DefaultProfile(Me)
    \/ SettingsLoad
    \/ SettingsSave
    \/ ProfileSnapshot
    \/ TagSnapshot
    \/ \E tag \in Range(ChipRow) : SelectChip(tag)
    \/ \E i \in 1..MaxFetches : FetchGetDocs(i)
    \/ \E i \in 1..MaxFetches : FetchLookup(i)

SpecChips == InitChips /\ [][NextChips]_vars

\* ---------------------------------------------------- the tag aggregator
\* interests of the documents the tag listener can find
AggregateTagLists ==
    {<<>>, <<s_art>>, <<s_Art, s_music>>, <<s_music, s_art>>,
     <<s_museum, s_Live>>}

\* collections of up to n live documents, in every order
RECURSIVE StoresUpTo(_)
StoresUpTo(n) ==
    IF n = 0 THEN {<<>>}
    ELSE LET smaller == StoresUpTo(n - 1)
         IN  smaller \cup {AddDoc(col, SnapData("u1", ints, 1, 1)) :
                              col \in smaller, ints \in AggregateTagLists}

\* DiscoverScreen has mounted on one of the collections
InitAggregate ==
    /\ now = 1
    /\ snapsCol \in StoresUpTo(MaxPosts)
    /\ saving = [u \in Users |-> <<>>]
    /\ capEdit = <<>>
    /\ migr = <<>>
    /\ feedQ = <<>>
    /\ lastDelivered = <<>>
    /\ callbacks = <<>>
    /\ storeSnaps = <<>>
    /\ allTags = <<>>
    /\ tagsDelivered = <<>>
    /\ userInterests = <<>>
    /\ selected = <<>>
    /\ fetches = <<[sel |-> <<>>, qnow |-> now, seen |-> <<>>, k |-> 0]>>
    /\ discSnaps = <<>>
    /\ loading = TRUE
    /\ discRun = <<>>
    /\ lastSearch = <<>>
    /\ InitExt

NextAggregate ==
    \/ TagSnapshot
    \/ \E tag \in Range(ChipRow) : SelectChip(tag)
    \/ \E i \in 1..MaxFetches : FetchGetDocs(i)
    \/ \E i \in 1..MaxFetches : FetchLookup(i)

SpecAggregate == InitAggregate /\ [][NextAggregate]_vars

\* ------------------------------------------------------ malformed records
\* collections in which the second of three documents has no interests
\* field, or one that is not an array of strings
MalformedStores ==
    { AddDoc(AddDoc(AddDoc(<<>>,
          SnapData("u1", <<s_music, s_art>>, 1, 1)),
          SnapData("u2", bad, 1, 1)),
          SnapData("u1", <<s_art>>, 1, 1)) : bad \in {Undefined, <<NotAString>>} }

\* DiscoverScreen has mounted on one of the collections; FeedScreen has not
InitMalformed ==
    /\ now = 1
    /\ snapsCol \in MalformedStores
    /\ saving = [u \in Users |-> <<>>]
    /\ capEdit = <<>>
    /\ migr = <<>>
    /\ feedQ = <<>>
    /\ lastDelivered = <<>>
    /\ callbacks = <<>>
    /\ storeSnaps = <<>>
    /\ allTags = <<>>
    /\ tagsDelivered = <<>>
    /\ userInterests = <<>>
    /\ selected = <<>>
    /\ fetches = <<[sel |-> <<>>, qnow |-> now, seen |-> <<>>, k |-> 0]>>
    /\ discSnaps = <<>>
    /\ loading = TRUE
    /\ discRun = <<>>
    /\ lastSearch = <<>>
    /\ InitExt

NextMalformed ==
    \/ TagSnapshot
    \/ \E text \in SearchTexts : SubmitSearch(text)
    \/ \E i \in 1..MaxFetches : FetchGetDocs(i)
    \/ \E i \in 1..MaxFetches : FetchLookup(i)
    \/ FeedMount
    \/ FeedOnSnapshot
    \/ \E i \in 1..MaxCallbacks : FeedLookup(i)

SpecMalformed == InitMalformed /\ [][NextMalformed]_vars

\* ------------------------------------------------------- the camera's tags
\* texts typed into the camera's TagEditor
CameraTexts == {s_art}

\* tagSuggestion.tag of the suggestions the tag service returned: the
\* model's words as they came, s.tag || `tag${index + 1}`
SuggestedTags == {s_Art}

\* the variables the camera's tag handlers leave alone
camFrame == <<now, snapsCol, saving, capEdit, migr, feedQ, lastDelivered,
              callbacks, storeSnaps, discVars, usersCol, settingsInterests,
              notifCol, notification, dismissing, seenWrites, shownLabel,
              normIn, normOut, authUser, storeUser, storeUserData,
              handlers, signingUp, uploading, uploadRun,
              deletingSnap, repliesCol, replyRun, alert>>

\* a text is typed into the camera's TagEditor and entered: onChange={setTags}
CameraType(text) ==
    /\ TagEditorEnter(camTags, text) # camTags
    /\ camTags' = TagEditorEnter(camTags, text)
    /\ UNCHANGED camFrame

\* selectTag: a suggested tag is added as it is unless tags includes it
SelectTag(tagName) ==
    /\ tagName \notin Range(camTags)
    /\ camTags' = Append(camTags, tagName)
    /\ UNCHANGED camFrame

\* resetModalStates: setTags([])
ResetModalStates ==
    /\ camTags # <<>>
    /\ camTags' = <<>>
    /\ UNCHANGED camFrame

\* uploadSnap reaches saveSnapToFirestore with the tags state
CameraSaveBegin == SaveSnapBegin(Me, camTags)

\* the camera is open, nothing is stored
InitCamera ==
    /\ now = 0
    /\ snapsCol = <<>>
    /\ saving = [u \in Users |-> <<>>]
    /\ capEdit = <<>>
    /\ migr = <<>>
    /\ feedQ = <<>>
    /\ lastDelivered = <<>>
    /\ callbacks = <<>>
    /\ storeSnaps = <<>>
    /\ allTags = <<>>
    /\ tagsDelivered = <<>>
    /\ userInterests = <<>>
    /\ selected = <<>>
    /\ fetches = <<>>
    /\ discSnaps = <<>>
    /\ loading = FALSE
    /\ discRun = <<>>
    /\ lastSearch = <<>>
    /\ InitExt

NextCamera ==
    \/ \E text \in CameraTexts : CameraType(text)
    \/ \E tagName \in SuggestedTags : SelectTag(tagName)
    \/ ResetModalStates
    \/ CameraSaveBegin
    \/ SaveSnapCommit(Me)
    \/ FeedMount
    \/ FeedOnSnapshot
    \/ \E i \in 1..MaxCallbacks : FeedLookup(i)
    \/ EditTagsSave

SpecCamera == InitCamera /\ [][NextCamera]_vars

\* ------------------------------------------------ the remaining-time label
\* 1000 * 60 * 60 and 1000 * 60
HourMs == 1000 * 60 * 60
MinuteMs == 1000 * 60

\* a positive integer in a template literal: its decimal digits
RECURSIVE ToDecimal(_)
ToDecimal(n) ==
    IF n < 10 THEN <<48 + n>>
    ELSE Append(ToDecimal(n \div 10), 48 + (n % 10))

\* getTimeRemaining with Math.ceil in place of Math.floor
GetTimeRemainingCeil(expiresAt, t) ==
    LET diffMs == expiresAt - t
        diffHours == -((-diffMs) \div HourMs)
        diffMinutes == -((-diffMs) \div MinuteMs)
    IN  IF diffHours > 0 THEN ToDecimal(diffHours) \o s_h_left
        ELSE IF diffMinutes > 0 THEN ToDecimal(diffMinutes) \o s_m_left
        ELSE s_Expired

\* getTimeRemaining at time t: Math.floor of the difference in hours and in
\* minutes
GetTimeRemaining(expiresAt, t) ==
    LET diffMs == expiresAt - t
        diffHours == diffMs \div HourMs
        diffMinutes == diffMs \div MinuteMs
    IN  IF diffHours > 0 THEN ToDecimal(diffHours) \o s_h_left
        ELSE IF diffMinutes > 0 THEN ToDecimal(diffMinutes) \o s_m_left
        ELSE s_Expired

\* a card of the feed is rendered: the label is computed from the clock
RenderCard(i) ==
    /\ i \in 1..Len(storeSnaps)
    /\ shownLabel' = Some([expiresAt |-> storeSnaps[i].expiresAt, at |-> now,
                           text |-> GetTimeRemaining(storeSnaps[i].expiresAt, now)])
    /\ UNCHANGED <<now, snapsCol, saving, capEdit, migr, feedQ, lastDelivered,
                   callbacks, storeSnaps, discVars>>
    /\ UNCHANGED <<usersCol, settingsInterests, camTags, notifCol,
                   notification, dismissing, seenWrites, normIn, normOut,
                   authUser, storeUser, storeUserData,
                   handlers, signingUp, uploading, uploadRun,
                   deletingSnap, repliesCol, replyRun, alert>>

\* the times at which a card is rendered, counted from the post's creation
\* at 0: around the hour and minute boundaries of the post's 24 hours
LabelInstants ==
    {h * HourMs + m * MinuteMs + ms :
        h \in {0, 1, 12, 22, 23, 24}, m \in {0, 1, 59}, ms \in {0, 1, 59999}}

\* FeedScreen shows a post created at 0, at one of the instants
InitLabel ==
    /\ now \in LabelInstants
    /\ snapsCol = AddDoc(<<>>, SnapData("u1", <<s_art>>, 0, 0))
    /\ saving = [u \in Users |-> <<>>]
    /\ capEdit = <<>>
    /\ migr = <<>>
    /\ feedQ = Some(0)
    /\ lastDelivered = Some(FeedQuery(snapsCol, 0))
    /\ callbacks = <<>>
    /\ storeSnaps = SnapsData(FeedQuery(snapsCol, 0))
    /\ allTags = <<>>
    /\ tagsDelivered = <<>>
    /\ userInterests = <<>>
    /\ selected = <<>>
    /\ fetches = <<>>
    /\ discSnaps = <<>>
    /\ loading = FALSE
    /\ discRun = <<>>
    /\ lastSearch = <<>>
    /\ InitExt

NextLabel == \E i \in 1..Len(storeSnaps) : RenderCard(i)

SpecLabel == InitLabel /\ [][NextLabel]_vars

\* ------------------------------------------------------ notifications
MaxNotifications == 2   \* notification documents ever created
MaxSeenWrites == 2      \* seen: true writes of dismissNotification per document

notifFrame == <<now, snapsCol, saving, capEdit, migr, feedQ, lastDelivered,
                callbacks, storeSnaps, discVars, usersCol, settingsInterests,
                camTags, shownLabel, normIn, normOut,
                authUser, storeUser, storeUserData,
                handlers, signingUp, uploading, uploadRun,
                deletingSnap, repliesCol, replyRun, alert>>

\* firestore.rules, match /notifications/{notificationId}
\* allow create: request.auth.uid == request.resource.data.from
AllowCreate(u, data) == u = data.from
\* allow read, update: request.auth.uid == resource.data.to
AllowUpdate(u, resource) == u = resource.to

\* sendReply on the device of u, for the snap i shown in its feed, when both
\* of its writes succeed: the reply is stored, the notification for the
\* snap's owner is created unseen, and the success alert is shown
SendReply(u, i) ==
    /\ i \in DOMAIN snapsCol
    /\ Len(notifCol) < MaxNotifications
    /\ repliesCol' = Append(repliesCol,
                            [snapId |-> i, from |-> u,
                             to |-> snapsCol[i].owner, createdAt |-> now])
    /\ LET data == [to |-> snapsCol[i].owner, from |-> u, snapId |-> i,
                    createdAt |-> now, seen |-> FALSE]
       IN  /\ AllowCreate(u, data)
           /\ notifCol' = Append(notifCol, data)
    /\ seenWrites' = Append(seenWrites, 0)
    /\ alert' = Some([title |-> "Success", message |-> "Reply sent!"])
    /\ UNCHANGED <<notification, dismissing>>
    /\ UNCHANGED <<now, snapsCol, saving, capEdit, migr, feedQ, lastDelivered,
                   callbacks, storeSnaps, discVars, usersCol,
                   settingsInterests, camTags, shownLabel, normIn, normOut,
                   authUser, storeUser, storeUserData, handlers, signingUp,
                   uploading, uploadRun, deletingSnap, replyRun>>

\* the documents of the listener's query: to == me and seen == false
UnseenIds == {id \in DOMAIN notifCol :
                 notifCol[id].to = Me /\ ~notifCol[id].seen}

\* docs.sort by createdAt.seconds, most recent first; docs[0]
LatestUnseen ==
    CHOOSE id \in UnseenIds :
        \A other \in UnseenIds :
            \/ notifCol[id].createdAt \div 1000
                  > notifCol[other].createdAt \div 1000
            \/ /\ notifCol[id].createdAt \div 1000
                     = notifCol[other].createdAt \div 1000
               /\ id <= other

\* what the listener's callback leaves in the notification state
ListenerResult == IF UnseenIds = {} THEN <<>> ELSE Some(LatestUnseen)

\* the notification listener delivers the current result of the query
NotifSnapshot ==
    /\ notification # ListenerResult
    /\ notification' = ListenerResult
    /\ UNCHANGED <<notifCol, dismissing, seenWrites>>
    /\ UNCHANGED notifFrame

\* dismissNotification up to its await: the banner is pressed while a
\* notification is shown, and updateDoc writes seen: true
DismissBegin ==
    /\ ~IsNone(notification)
    /\ seenWrites[Get(notification)] < MaxSeenWrites
    /\ AllowUpdate(Me, notifCol[Get(notification)])
    /\ notifCol' = [notifCol EXCEPT ![Get(notification)].seen = TRUE]
    /\ seenWrites' = [seenWrites EXCEPT ![Get(notification)] = @ + 1]
    /\ dismissing' = Append(dismissing, Get(notification))
    /\ UNCHANGED notification
    /\ UNCHANGED notifFrame

\* dismissNotification after its await: setNotification(null)
DismissFinish ==
    /\ dismissing # <<>>
    /\ dismissing' = Tail(dismissing)
    /\ notification' = <<>>
    /\ UNCHANGED <<notifCol, seenWrites>>
    /\ UNCHANGED notifFrame

\* an update of the seen field that the security rules accept from user u
PermittedUpdate(u, id, seen) ==
    /\ id \in DOMAIN notifCol
    /\ AllowUpdate(u, notifCol[id])
    /\ notifCol[id].seen # seen
    /\ notifCol' = [notifCol EXCEPT ![id].seen = seen]
    /\ UNCHANGED <<notification, dismissing, seenWrites>>
    /\ UNCHANGED notifFrame

\* two users with a post each; FeedScreen of Me is listening
InitNotify ==
    /\ now = 0
    /\ snapsCol = AddDoc(AddDoc(<<>>, SnapData("u1", <<s_art>>, 0, 0)),
                         SnapData("u2", <<s_music>>, 0, 0))
    /\ saving = [u \in Users |-> <<>>]
    /\ capEdit = <<>>
    /\ migr = <<>>
    /\ feedQ = <<>>
    /\ lastDelivered = <<>>
    /\ callbacks = <<>>
    /\ storeSnaps = <<>>
    /\ allTags = <<>>
    /\ tagsDelivered = <<>>
    /\ userInterests = <<>>
    /\ selected = <<>>
    /\ fetches = <<>>
    /\ discSnaps = <<>>
    /\ loading = FALSE
    /\ discRun = <<>>
    /\ lastSearch = <<>>
    /\ InitExt

NextNotify ==
    \/ \E u \in Users, i \in DOMAIN snapsCol : SendReply(u, i)
    \/ NotifSnapshot
    \/ DismissBegin
    \/ DismissFinish
    \/ \E u \in Users, id \in DOMAIN notifCol, seen \in BOOLEAN :
          PermittedUpdate(u, id, seen)

SpecNotify == InitNotify /\ [][NextNotify]_vars

\* ------------------------------------------------------------ the session
\* the variables that the upload, delete, reply and session handlers leave
\* alone
sessFrame == <<capEdit, migr, discVars, settingsInterests, camTags,
               notification, dismissing, seenWrites, shownLabel, normIn,
               normOut>>

\* the app at time 0 with the snaps collection col and the stored profiles
\* profiles; session is the uid signed in with its profile loaded, or empty
InitSession(col, profiles, session) ==
    /\ now = 0
    /\ snapsCol = col
    /\ saving = [u \in Users |-> <<>>]
    /\ capEdit = <<>>
    /\ migr = <<>>
    /\ feedQ = <<>>
    /\ lastDelivered = <<>>
    /\ callbacks = <<>>
    /\ storeSnaps = <<>>
    /\ allTags = <<>>
    /\ tagsDelivered = <<>>
    /\ userInterests = <<>>
    /\ selected = <<>>
    /\ fetches = <<>>
    /\ discSnaps = <<>>
    /\ loading = FALSE
    /\ discRun = <<>>
    /\ lastSearch = <<>>
    /\ usersCol = profiles
    /\ settingsInterests = <<>>
    /\ camTags = <<>>
    /\ notifCol = <<>>
    /\ notification = <<>>
    /\ dismissing = <<>>
    /\ seenWrites = <<>>
    /\ shownLabel = <<>>
    /\ normIn = <<>>
    /\ normOut = <<>>
    /\ authUser = session
    /\ storeUser = session
    /\ storeUserData =
          IF IsNone(session) THEN <<>>
          ELSE Some([uid |-> Get(session),
                     interests |-> profiles[Get(session)]])
    /\ handlers = <<>>
    /\ signingUp = <<>>
    /\ uploading = FALSE
    /\ uploadRun = <<>>
    /\ deletingSnap = <<>>
    /\ repliesCol = <<>>
    /\ replyRun = <<>>
    /\ alert = <<>>

\* ------------------------------------------------------------- uploadSnap
\* "file:///photo.jpg" is the URI of the captured picture (capturedImage),
\* "https://storage/snaps/0.jpg" the download URL of a stored one
\* uploadSnap up to its first await: setUploading(true), imageUrl and
\* uploadMethod start as the local ones, uploadToFirebaseStorage is called
UploadSnapBegin ==
    /\ ~uploading
    /\ IsNone(uploadRun)
    /\ ~IsNone(authUser)
    /\ ~IsNone(storeUserData)
    /\ Cardinality(Ids) + PendingSaves < MaxPosts
    /\ uploading' = TRUE
    /\ uploadRun' = Some([stage |-> "storage", imageUrl |-> "file:///photo.jpg",
                          uploadMethod |-> "Local (Demo Mode)"])
    /\ UNCHANGED <<now, snapsCol, saving, feedQ, lastDelivered, callbacks,
                   storeSnaps, usersCol, notifCol, authUser, storeUser,
                   storeUserData, handlers, signingUp, deletingSnap,
                   repliesCol, replyRun, alert, sessFrame>>

\* uploadSnap without the inner try/catch: a storage failure reaches the
\* outer catch
UploadStorageDoneRethrow(ok) ==
    /\ ~IsNone(uploadRun)
    /\ Get(uploadRun).stage = "storage"
    /\ IF ok
       THEN /\ uploadRun' = Some([stage |-> "addDoc", imageUrl |-> "https://storage/snaps/0.jpg",
                                  uploadMethod |-> "Firebase Storage"])
            /\ \E c \in Captions :
                  saving' = [saving EXCEPT ![Get(authUser)] =
                                Some([caption |-> c,
                                      interests |-> SnapInterests(camTags),
                                      expiresAt |-> ExpiresAtFrom(now)])]
            /\ UNCHANGED <<uploading, alert>>
       ELSE /\ uploadRun' = <<>>
            /\ uploading' = FALSE
            /\ alert' = Some([title |-> "Upload Error",
                              message |-> "Failed to save snap. Please try again."])
            /\ UNCHANGED saving
    /\ UNCHANGED <<now, snapsCol, feedQ, lastDelivered, callbacks,
                   storeSnaps, usersCol, notifCol, authUser, storeUser,
                   storeUserData, handlers, signingUp, deletingSnap,
                   repliesCol, replyRun, sessFrame>>

\* uploadToFirebaseStorage returns the download URL (ok) or throws; the
\* inner catch falls back to the local URI; then saveSnapToFirestore builds
\* snapData, reading Date.now() for expiresAt
UploadStorageDone(ok) ==
    /\ ~IsNone(uploadRun)
    /\ Get(uploadRun).stage = "storage"
    /\ uploadRun' =
          IF ok
          THEN Some([stage |-> "addDoc", imageUrl |-> "https://storage/snaps/0.jpg",
                     uploadMethod |-> "Firebase Storage"])
          ELSE Some([stage |-> "addDoc", imageUrl |-> "file:///photo.jpg",
                     uploadMethod |-> "Local (Demo Mode)"])
    /\ \E c \in Captions :
          saving' = [saving EXCEPT ![Get(authUser)] =
                        Some([caption |-> c,
                              interests |-> SnapInterests(camTags),
                              expiresAt |-> ExpiresAtFrom(now)])]
    /\ UNCHANGED <<now, snapsCol, feedQ, lastDelivered, callbacks,
                   storeSnaps, usersCol, notifCol, authUser, storeUser,
                   storeUserData, handlers, signingUp, uploading,
                   deletingSnap, repliesCol, replyRun, alert, sessFrame>>

\* addDoc of saveSnapToFirestore resolves (ok) or rejects; uploadSnap shows
\* the success alert of its upload method, or the error alert from its
\* catch; finally setUploading(false)
UploadAddDoc(ok) ==
    /\ ~IsNone(uploadRun)
    /\ Get(uploadRun).stage = "addDoc"
    /\ LET run == Get(uploadRun)
           d == Get(saving[Get(authUser)])
       IN  IF ok
           THEN /\ snapsCol' = AddDoc(snapsCol,
                      [id |-> 0, url |-> run.imageUrl, owner |-> Get(authUser),
                       caption |-> d.caption, interests |-> d.interests,
                       expiresAt |-> d.expiresAt, createdAt |-> now])
                /\ alert' = Some([title |-> "Success",
                      message |->
                        IF run.uploadMethod = "Firebase Storage"
                        THEN "Snap uploaded to Firebase Storage successfully!"
                        ELSE "Snap saved successfully! (Demo mode)"])
           ELSE /\ UNCHANGED snapsCol
                /\ alert' = Some([title |-> "Upload Error",
                      message |-> "Failed to save snap to database"])
    /\ saving' = [saving EXCEPT ![Get(authUser)] = <<>>]
    /\ uploadRun' = <<>>
    /\ uploading' = FALSE
    /\ UNCHANGED <<now, feedQ, lastDelivered, callbacks, storeSnaps,
                   usersCol, notifCol, authUser, storeUser, storeUserData,
                   handlers, signingUp, deletingSnap, repliesCol, replyRun,
                   sessFrame>>

\* the camera of Me, signed in, with an empty collection
SpecUpload ==
    /\ InitSession(<<>>, [u \in {Me} |-> <<s_Art>>], Some(Me))
    /\ [][\/ Tick
          \/ \E text \in CameraTexts : CameraType(text)
          \/ UploadSnapBegin
          \/ \E ok \in BOOLEAN : UploadStorageDone(ok)
          \/ \E ok \in BOOLEAN : UploadAddDoc(ok)]_vars

\* ---------------------------------------------- the rules of /snaps, delete
\* firestore.rules, match /snaps/{snapId}
\* a delete rule that asks for a signed-in user only
AllowSnapDeleteSignedIn(u, resource) == u \in Users
\* allow delete: request.auth.uid == resource.data.owner
AllowSnapDelete(u, resource) == u = resource.owner

\* an update of the owner field that the security rules accept from user u
PermittedSnapUpdate(u, id, owner) ==
    /\ id \in Ids
    /\ snapsCol[id].owner # owner
    \* allow write: request.auth.uid == request.resource.data.owner, where
    \* request.resource is the document as the write would leave it
    /\ u = [snapsCol[id] EXCEPT !.owner = owner].owner
    /\ snapsCol' = [snapsCol EXCEPT ![id].owner = owner]
    /\ UNCHANGED <<now, saving, feedQ, lastDelivered, callbacks, storeSnaps,
                   usersCol, notifCol, authUser, storeUser, storeUserData,
                   handlers, signingUp, uploading, uploadRun,
                   deletingSnap, repliesCol, replyRun, alert, sessFrame>>

\* FeedScreen.deleteSnap for the displayed snap k, up to its await: a snap
\* of another owner is refused with an alert, else deleteDoc is called
DeleteSnap(k) ==
    /\ k \in 1..Len(storeSnaps)
    /\ IsNone(deletingSnap)
    /\ IF IsNone(authUser) \/ storeSnaps[k].owner # Get(authUser)
       THEN /\ alert' = Some([title |-> "Error",
                              message |-> "You can only delete your own snaps"])
            /\ UNCHANGED deletingSnap
       ELSE /\ deletingSnap' = Some([id |-> storeSnaps[k].id, screen |-> "Feed"])
            /\ UNCHANGED alert
    /\ UNCHANGED <<now, snapsCol, saving, feedQ, lastDelivered, callbacks,
                   storeSnaps, usersCol, notifCol, authUser, storeUser,
                   storeUserData, handlers, signingUp, uploading, uploadRun,
                   repliesCol, replyRun, sessFrame>>

\* SnapViewerScreen.deleteSnap for the displayed snap k, up to its await:
\* deleteDoc is called for any snap that has an id
ViewerDeleteSnap(k) ==
    /\ k \in 1..Len(storeSnaps)
    /\ IsNone(deletingSnap)
    /\ ~IsNone(authUser)
    /\ deletingSnap' = Some([id |-> storeSnaps[k].id, screen |-> "Viewer"])
    /\ UNCHANGED <<now, snapsCol, saving, feedQ, lastDelivered, callbacks,
                   storeSnaps, usersCol, notifCol, authUser, storeUser,
                   storeUserData, handlers, signingUp, uploading, uploadRun,
                   repliesCol, replyRun, alert, sessFrame>>

\* deleteDoc is decided by the rules on the stored document: the document is
\* removed and the success alert shown, or the promise rejects and the catch
\* shows the error alert; finally the deleting state is cleared
DeleteDocDone ==
    /\ ~IsNone(deletingSnap)
    /\ LET id == Get(deletingSnap).id
       IN  IF id \in Ids /\ AllowSnapDelete(Get(authUser), snapsCol[id])
           THEN /\ snapsCol' = [i \in Ids \ {id} |-> snapsCol[i]]
                /\ alert' = Some([title |-> "Success",
                      message |-> IF Get(deletingSnap).screen = "Feed"
                                  THEN "Snap deleted successfully!"
                                  ELSE "Snap deleted successfully"])
           ELSE /\ UNCHANGED snapsCol
                /\ alert' = Some([title |-> "Error",
                      message |-> "Failed to delete snap. Please try again."])
    /\ deletingSnap' = <<>>
    /\ UNCHANGED <<now, saving, feedQ, lastDelivered, callbacks, storeSnaps,
                   usersCol, notifCol, authUser, storeUser, storeUserData,
                   handlers, signingUp, uploading, uploadRun, repliesCol,
                   replyRun, sessFrame>>

\* FeedScreen shows a collection; the client's update paths and the updates
\* the rules accept
SpecOwner ==
    /\ InitEdit
    /\ [][\/ NextEdit
          \/ \E u \in Users, id \in Ids, owner \in Users :
                PermittedSnapUpdate(u, id, owner)]_vars

\* Me is signed in and finds two posts in the feed, each owned by either
\* user; the feed listener and the two deleteSnap handlers
SpecDelete ==
    /\ \E a \in Users, b \in Users :
          InitSession(AddDoc(AddDoc(<<>>, SnapData(a, <<s_art>>, 0, 0)),
                             SnapData(b, <<s_music>>, 0, 0)),
                      [u \in Users |-> <<s_Art>>], Some(Me))
    /\ [][\/ FeedMount
          \/ FeedOnSnapshot
          \/ \E i \in 1..Len(callbacks) : FeedLookup(i)
          \/ \E k \in 1..Len(storeSnaps) : DeleteSnap(k)
          \/ \E k \in 1..Len(storeSnaps) : ViewerDeleteSnap(k)
          \/ DeleteDocDone]_vars

\* ------------------------------------------- two fetchSnaps runs in flight
\* DiscoverScreen has mounted and the tag listener has delivered the
\* collection while the first run of the fetchSnaps effect, without a
\* selection, still awaits getDocs: the first displayed tag was selected and
\* the run for it started
SpecRace ==
    /\ \E st \in DiscoverStores : now = st.now /\ snapsCol = st.col
    /\ saving = [u \in Users |-> <<>>]
    /\ capEdit = <<>>
    /\ migr = <<>>
    /\ feedQ = <<>>
    /\ lastDelivered = <<>>
    /\ callbacks = <<>>
    /\ storeSnaps = <<>>
    /\ allTags = TagAggregate(snapsCol)
    /\ tagsDelivered = Some(snapsCol)
    /\ userInterests = <<>>
    /\ selected = DisplayTags(<<>>, allTags)[1]
    /\ fetches = <<[sel |-> <<>>, qnow |-> now, seen |-> <<>>, k |-> 0],
                   [sel |-> selected, qnow |-> now, seen |-> <<>>, k |-> 0]>>
    /\ discSnaps = <<>>
    /\ loading = TRUE
    /\ discRun = <<>>
    /\ lastSearch = <<>>
    /\ InitExt
    /\ [][\/ Tick
          \/ \E i \in 1..Len(fetches) : FetchGetDocs(i)
          \/ \E i \in 1..Len(fetches) : FetchFail(i)
          \/ \E i \in 1..Len(fetches) : FetchLookup(i)
          \/ \E tag \in Range(DisplayTags(userInterests, allTags)) :
                SelectChip(tag)]_vars

\* ------------------------------------------------------------- logout
\* FeedScreen.handleLogout: the feed listener is unsubscribed, signOut is
\* awaited (the auth listener then runs setUser(null), setUserData(null)),
\* and useStore.logout sets user, userData and snaps to their empty values;
\* callbacks of the listener that are already running are not stopped
HandleLogout ==
    /\ ~IsNone(authUser)
    /\ feedQ' = <<>>
    /\ lastDelivered' = <<>>
    /\ authUser' = <<>>
    /\ storeUser' = <<>>
    /\ storeUserData' = <<>>
    /\ storeSnaps' = <<>>
    /\ UNCHANGED <<now, snapsCol, saving, callbacks, usersCol, notifCol,
                   handlers, signingUp, uploading, uploadRun, deletingSnap,
                   repliesCol, replyRun, alert, sessFrame>>

\* Me is signed in and FeedScreen is about to mount; the collection holds a
\* post of each user
SpecLogout ==
    /\ InitSession(AddDoc(AddDoc(<<>>, SnapData("u1", <<s_art>>, 0, 0)),
                          SnapData("u2", <<s_music>>, 0, 0)),
                   [u \in Users |-> <<s_Art>>], Some(Me))
    /\ [][\/ Tick
          \/ FeedMount
          \/ FeedOnSnapshot
          \/ \E i \in 1..Len(callbacks) : FeedLookup(i)
          \/ EditTagsSave
          \/ HandleLogout]_vars

\* ------------------------------------------------- handleAuthStateChange
MaxHandlers == 2   \* handleAuthStateChange invocations awaiting at one time

\* AuthScreen.handleAuth, signing in: signInWithEmailAndPassword resolves
SignIn(u) ==
    /\ IsNone(authUser)
    /\ IsNone(signingUp)
    \* onAuthStateChanged calls handleAuthStateChange(authUser):
    \* setUser(authUser), then getDoc of the profile is awaited
    /\ Len(handlers) < MaxHandlers
    /\ authUser' = Some(u)
    /\ storeUser' = Some(u)
    /\ handlers' = Append(handlers, [uid |-> u, stage |-> "getDoc"])
    /\ UNCHANGED <<now, snapsCol, saving, feedQ, lastDelivered, callbacks,
                   storeSnaps, usersCol, notifCol, storeUserData, signingUp,
                   uploading, uploadRun, deletingSnap, repliesCol, replyRun,
                   alert, sessFrame>>

\* AuthScreen.handleAuth, signing up, up to its second await:
\* createUserWithEmailAndPassword resolves and setDoc of the profile is called
SignUpCreate(u, selectedInterests) ==
    /\ IsNone(authUser)
    /\ IsNone(signingUp)
    /\ u \notin DOMAIN usersCol
    \* onAuthStateChanged calls handleAuthStateChange(authUser):
    \* setUser(authUser), then getDoc of the profile is awaited
    /\ Len(handlers) < MaxHandlers
    /\ authUser' = Some(u)
    /\ storeUser' = Some(u)
    /\ handlers' = Append(handlers, [uid |-> u, stage |-> "getDoc"])
    /\ signingUp' = Some([uid |-> u, interests |-> selectedInterests])
    /\ UNCHANGED <<now, snapsCol, saving, feedQ, lastDelivered, callbacks,
                   storeSnaps, usersCol, notifCol, storeUserData, uploading,
                   uploadRun, deletingSnap, repliesCol, replyRun, alert,
                   sessFrame>>

\* ... the profile's setDoc resolves, or is refused by the rules for a user
\* who is no longer signed in
SignUpSetDoc ==
    /\ ~IsNone(signingUp)
    /\ LET e == Get(signingUp)
       IN  IF authUser = Some(e.uid)  \* allow write: request.auth.uid == userId
           THEN /\ usersCol' = SetUserDoc(usersCol, e.uid, e.interests)
                /\ alert' = Some([title |-> "Success",
                                  message |-> "Account created successfully!"])
           ELSE /\ UNCHANGED usersCol
                /\ alert' = Some([title |-> "Error",
                                  message |-> "Missing or insufficient permissions."])
    /\ signingUp' = <<>>
    /\ UNCHANGED <<now, snapsCol, saving, feedQ, lastDelivered, callbacks,
                   storeSnaps, notifCol, authUser, storeUser, storeUserData,
                   handlers, uploading, uploadRun, deletingSnap, repliesCol,
                   replyRun, sessFrame>>

\* getDoc of handler i resolves: an existing profile is put into userData;
\* without one the default userData is set and its setDoc is called; a
\* refused read sets the minimal userData
HandlerGetDoc(i) ==
    /\ i \in 1..Len(handlers)
    /\ handlers[i].stage = "getDoc"
    /\ LET u == handlers[i].uid
       IN  IF IsNone(authUser)  \* allow read: request.auth != null
           THEN /\ storeUserData' = Some([uid |-> u,
                                          interests |-> <<s_Photography>>])
                /\ handlers' = RemoveAt(handlers, i)
           ELSE IF u \in DOMAIN usersCol
           THEN /\ storeUserData' = Some([uid |-> u,
                                          interests |-> OrEmpty(usersCol[u])])
                /\ handlers' = RemoveAt(handlers, i)
           ELSE /\ storeUserData' = Some([uid |-> u,
                                          interests |-> DefaultInterests])
                /\ handlers' = [handlers EXCEPT ![i].stage = "setDoc"]
    /\ UNCHANGED <<now, snapsCol, saving, feedQ, lastDelivered, callbacks,
                   storeSnaps, usersCol, notifCol, authUser, storeUser,
                   signingUp, uploading, uploadRun, deletingSnap, repliesCol,
                   replyRun, alert, sessFrame>>

\* the default profile's setDoc of handler i resolves, or is refused and the
\* error is logged
HandlerSetDoc(i) ==
    /\ i \in 1..Len(handlers)
    /\ handlers[i].stage = "setDoc"
    /\ usersCol' = IF authUser = Some(handlers[i].uid)  \* rules: allow write
                   THEN SetUserDoc(usersCol, handlers[i].uid, DefaultInterests)
                   ELSE usersCol
    /\ handlers' = RemoveAt(handlers, i)
    /\ UNCHANGED <<now, snapsCol, saving, feedQ, lastDelivered, callbacks,
                   storeSnaps, notifCol, authUser, storeUser, storeUserData,
                   signingUp, uploading, uploadRun, deletingSnap, repliesCol,
                   replyRun, alert, sessFrame>>

\* the app has started signed out; u1 has a profile, u2 has no account
SpecAuth ==
    /\ InitSession(<<>>, [u \in {"u1"} |-> <<s_art>>], <<>>)
    /\ [][\/ \E u \in DOMAIN usersCol : SignIn(u)
          \/ \E u \in Users, sel \in SignUpSelections : SignUpCreate(u, sel)
          \/ SignUpSetDoc
          \/ \E i \in 1..Len(handlers) : HandlerGetDoc(i)
          \/ \E i \in 1..Len(handlers) : HandlerSetDoc(i)
          \/ HandleLogout]_vars

\* ------------------------------------------------- sendReply, step by step
\* sendReply of the signed-in user for the snap i, up to its first await:
\* addDoc of the reply is called
SendReplyBegin(i) ==
    /\ i \in Ids
    /\ ~IsNone(authUser)
    /\ IsNone(replyRun)
    /\ Len(repliesCol) < MaxNotifications
    /\ replyRun' = Some([snapId |-> i, to |-> snapsCol[i].owner,
                         stage |-> "reply"])
    /\ UNCHANGED <<now, snapsCol, saving, feedQ, lastDelivered, callbacks,
                   storeSnaps, usersCol, notifCol, authUser, storeUser,
                   storeUserData, handlers, signingUp, uploading, uploadRun,
                   deletingSnap, repliesCol, alert, sessFrame>>

\* addDoc of the reply resolves and addDoc of the notification is called,
\* or it rejects and the catch shows the error alert
ReplyAddDoc(ok) ==
    /\ ~IsNone(replyRun)
    /\ Get(replyRun).stage = "reply"
    /\ IF ok
       THEN /\ repliesCol' = Append(repliesCol,
                   [snapId |-> Get(replyRun).snapId, from |-> Get(authUser),
                    to |-> Get(replyRun).to, createdAt |-> now])
            /\ replyRun' = Some([Get(replyRun) EXCEPT !.stage = "notification"])
            /\ UNCHANGED alert
       ELSE /\ alert' = Some([title |-> "Error",
                              message |-> "Failed to send reply"])
            /\ replyRun' = <<>>
            /\ UNCHANGED repliesCol
    /\ UNCHANGED <<now, snapsCol, saving, feedQ, lastDelivered, callbacks,
                   storeSnaps, usersCol, notifCol, authUser, storeUser,
                   storeUserData, handlers, signingUp, uploading, uploadRun,
                   deletingSnap, sessFrame>>

\* addDoc of the notification resolves and the success alert is shown, or it
\* rejects and the catch shows the error alert
NotificationAddDoc(ok) ==
    /\ ~IsNone(replyRun)
    /\ Get(replyRun).stage = "notification"
    /\ IF ok
       THEN /\ notifCol' = Append(notifCol,
                   [to |-> Get(replyRun).to, from |-> Get(authUser),
                    snapId |-> Get(replyRun).snapId, createdAt |-> now,
                    seen |-> FALSE])
            /\ alert' = Some([title |-> "Success", message |-> "Reply sent!"])
       ELSE /\ alert' = Some([title |-> "Error",
                              message |-> "Failed to send reply"])
            /\ UNCHANGED notifCol
    /\ replyRun' = <<>>
    /\ UNCHANGED <<now, snapsCol, saving, feedQ, lastDelivered, callbacks,
                   storeSnaps, usersCol, authUser, storeUser, storeUserData,
                   handlers, signingUp, uploading, uploadRun, deletingSnap,
                   repliesCol, capEdit, migr, discVars, settingsInterests,
                   camTags, notification, dismissing, shownLabel, normIn,
                   normOut>>
    /\ seenWrites' = IF ok THEN Append(seenWrites, 0) ELSE seenWrites

\* Me is signed in; the collection holds a post of each user
SpecReply ==
    /\ InitSession(AddDoc(AddDoc(<<>>, SnapData("u1", <<s_art>>, 0, 0)),
                          SnapData("u2", <<s_music>>, 0, 0)),
                   [u \in Users |-> <<s_Art>>], Some(Me))
    /\ [][\/ Tick
          \/ \E i \in Ids : SendReplyBegin(i)
          \/ \E ok \in BOOLEAN : ReplyAddDoc(ok)
          \/ \E ok \in BOOLEAN : NotificationAddDoc(ok)]_vars

\* ------------------------------------------------- the writers of tags
\* Me is signed in with a profile stored at sign-up, whose selection may be
\* empty; nothing is published yet. Publishing with either
\* saveSnapToFirestore, the feed listener and the tag editor
SpecTags ==
    /\ \E sel \in FavoriteLists :
          InitSession(<<>>, [u \in {Me} |-> sel], Some(Me))
    /\ [][\/ \E tags \in TypedTagLists : SaveSnapBegin(Me, tags)
          \/ SaveSnapLegacyBegin(Me, Get(storeUserData).interests)
          \/ SaveSnapCommit(Me)
          \/ FeedMount
          \/ FeedOnSnapshot
          \/ \E i \in 1..Len(callbacks) : FeedLookup(i)
          \/ EditTagsSave]_vars

\* ================================================================ claims

\* C1: an expired post is excluded from all feed and discovery results: no
\* post of the displayed feed (store snaps) or of the displayed Discover list
\* has now >= expiresAt.
C1_NoExpiredPostDisplayed ==
    /\ \A i \in 1..Len(storeSnaps) : now < storeSnaps[i].expiresAt
    /\ \A i \in 1..Len(discSnaps) : now < discSnaps[i].expiresAt

\* C2: the Discovery Filter never re-admits an expired post: the clock never
\* goes back, so an expired post stays expired, and the result of a fetchSnaps
\* run holds no post that had expired when the run started.
C2_NeverReadmitsExpired ==
    /\ [](~IsNone(discRun) =>
            \A i \in 1..Len(discSnaps) :
                /\ Get(discRun).qnow < discSnaps[i].expiresAt
                /\ discSnaps[i].id \in DOMAIN snapsCol =>
                      Get(discRun).qnow < snapsCol[discSnaps[i].id].expiresAt)
    /\ [][now' >= now]_vars

\* a run that returned a post while another post, matching the same
\* selection, had expired before the run started
C2_Witness ==
    /\ ~IsNone(discRun)
    /\ discSnaps # <<>>
    /\ \E id \in DOMAIN snapsCol :
          /\ snapsCol[id].expiresAt <= Get(discRun).qnow
          /\ Matches(snapsCol[id], Get(discRun).sel)

\* C3: every post document in the store satisfies
\* expiresAt = createdAt + TTL, with TTL = 24 hours.
C3_ExpiryIsCreationPlusTTL ==
    \A id \in DOMAIN snapsCol :
        snapsCol[id].expiresAt = snapsCol[id].createdAt + 24 * 60 * 60 * 1000

\* C4: no update path (caption edit, tag edit, interests migration) alters
\* the expiresAt or the createdAt of an existing post.
C4_UpdatesKeepTimestamps ==
    [][\A id \in DOMAIN snapsCol :
          /\ id \in DOMAIN snapsCol'
          /\ snapsCol'[id].expiresAt = snapsCol[id].expiresAt
          /\ snapsCol'[id].createdAt = snapsCol[id].createdAt]_vars

\* the three update paths have acted: a caption was edited, a tag list was
\* emptied by its owner, and the migration lowercased another user's post
C4_Witness ==
    /\ \E id \in DOMAIN snapsCol : snapsCol[id].caption = s_yo
    /\ \E id \in DOMAIN snapsCol :
          snapsCol[id].owner = Me /\ snapsCol[id].interests = <<s_misc>>
                                  /\ snapsCol[id].createdAt = 0
    /\ \E id \in DOMAIN snapsCol :
          snapsCol[id].owner # Me /\ snapsCol[id].interests = <<s_art>>

\* C5: updates reach the displayed feed in the order the change notifications
\* arrive: once every snapshot callback has finished (and no caption edit is
\* writing the list), the store's snaps are the list of the snapshot that
\* arrived last.
C5_LastSnapshotWins ==
    (callbacks = <<>> /\ IsNone(capEdit) /\ ~IsNone(lastDelivered))
        => storeSnaps = Get(lastDelivered)

\* t is, case-insensitively, a substring of some element of tags
SubstringOfSomeTag(t, tags) ==
    \E i \in 1..Len(tags) : Includes(ToLowerCase(tags[i]), ToLowerCase(t))

\* the ids of a displayed list
ShownIds(list) == {list[i].id : i \in 1..Len(list)}

C7_KeptPostsMatch ==
    ~IsNone(discRun) =>
        \A i \in 1..Len(discSnaps) :
            SubstringOfSomeTag(Get(discRun).sel, discSnaps[i].interests)

\* a run kept one live post and discarded another
C7_Witness ==
    /\ ~IsNone(discRun)
    /\ discSnaps # <<>>
    /\ \E id \in DOMAIN Get(discRun).seen :
          /\ Get(discRun).qnow < Get(discRun).seen[id].expiresAt
          /\ id \notin ShownIds(discSnaps)

\* C8: the result is sorted by expiresAt descending: of two adjacent posts
\* the earlier one's expiresAt is >= the later one's.
C8_SortedByExpiryDescending ==
    \A i \in 1..(Len(discSnaps) - 1) :
        discSnaps[i].expiresAt >= discSnaps[i + 1].expiresAt

\* a result of two posts with different expiry times
C8_Witness ==
    /\ Len(discSnaps) >= 2
    /\ discSnaps[1].expiresAt # discSnaps[2].expiresAt

\* what a search text resolves to, by the three rules: (a) the universe's tag
\* equal to the trimmed, lowercased text, else (b) the first tag containing
\* it, else (c) the trimmed, lowercased text itself
Resolved(text, universe) ==
    LET t == ToLowerCase(Trim(text))
        containing == {i \in 1..Len(universe) : Includes(universe[i], t)}
    IN  IF t \in Range(universe) THEN t
        ELSE IF containing # {}
             THEN universe[CHOOSE i \in containing : \A j \in containing : i <= j]
             ELSE t

\* C9: a submitted non-blank search text selects (a) the tag equal to the
\* trimmed, lowercased text if the universe has one, else (b) the first tag
\* containing it, else (c) the trimmed, lowercased text; an exact match wins
\* over a substring match.
C9_SearchResolution ==
    ~IsNone(lastSearch) =>
        selected = Resolved(Get(lastSearch).text, Get(lastSearch).tags)

\* "mu" was searched in a universe where "emu" comes before "mu"
C9_Witness ==
    /\ ~IsNone(lastSearch)
    /\ Get(lastSearch).text = s_mu
    /\ \E i, j \in 1..Len(Get(lastSearch).tags) :
          /\ i < j
          /\ Get(lastSearch).tags[i] = s_emu
          /\ Get(lastSearch).tags[j] = s_mu
    /\ selected = s_mu

\* "mu" was searched against the universe {"music", "museum", "art"}
SearchedMuInMusicMuseumArt ==
    /\ ~IsNone(lastSearch)
    /\ ToLowerCase(Trim(Get(lastSearch).text)) = s_mu
    /\ Range(Get(lastSearch).tags) = {s_music, s_museum, s_art}

\* C10: with no exact match, "mu" against the universe {"music", "museum",
\* "art"} selects "museum", the first substring match of the ascending
\* universe.
C10_MuSelectsMuseum ==
    SearchedMuInMusicMuseumArt =>
        /\ Get(lastSearch).tags = <<s_art, s_museum, s_music>>
        /\ selected = s_museum

C10_Witness ==
    SearchedMuInMusicMuseumArt /\ selected = s_museum

\* C15: tag normalization is idempotent: for every tag list T,
\* normalize(normalize(T)) = normalize(T), for the list handleSave stores,
\* the list the migration stores, and the list typed through the editor and
\* saved.
C15_NormalizeIdempotent ==
    ~IsNone(normOut) =>
        LET r == Get(normOut)
        IN  /\ r.by = "save" => SettingsNormalize(r.out) = r.out
            /\ r.by = "migration" => UniqueInterests(<<>>, r.out) = r.out
            /\ r.by = "editor" => EnterAndSave(r.out) = r.out

\* a save and a migration each stored a non-empty list that differs from
\* its input
C15_Witness ==
    /\ ~IsNone(normOut)
    /\ Get(normOut).by \in {"save", "migration"}
    /\ Get(normOut).out # <<>>
    /\ Get(normOut).out # normIn

\* trim, lowercase, drop the empty strings, de-duplicate, then keep the
\* first five
TrimLowerDedupeTruncate(raw) ==
    LET canon == [i \in 1..Len(raw) |-> ToLowerCase(Trim(raw[i]))]
        kept == {i \in 1..Len(raw) :
                    /\ canon[i] # <<>>
                    /\ \A j \in 1..(i - 1) : canon[j] # canon[i]}
        first == {i \in kept : Cardinality({j \in kept : j < i}) < 5}
    IN  {canon[i] : i \in first}

\* C16: tag normalization trims, lowercases, drops empty strings and
\* de-duplicates, and only then truncates to the first 5; the list
\* ["  Art ", "art", "ART", "music"] becomes the set {"art", "music"}.
C16_NormalizeSteps ==
    (~IsNone(normOut) /\ Get(normOut).by = "editor") =>
        LET out == Get(normOut).out
        IN  /\ Range(out) = TrimLowerDedupeTruncate(normIn)
            /\ Len(out) = Cardinality(Range(out))
            /\ normIn = <<s_Art_spaced, s_art, s_ART, s_music>>
                  => Range(out) = {s_art, s_music}

\* the documented list was typed and saved, and two tags were stored
C16_Witness ==
    /\ ~IsNone(normOut)
    /\ Get(normOut).by = "editor"
    /\ normIn = <<s_Art_spaced, s_art, s_ART, s_music>>
    /\ Len(Get(normOut).out) = 2

\* C17: every stored profile's interests are lowercase, pairwise distinct and
\* at most 5 in number.
C17_ProfileInterestsCanonical ==
    \A u \in DOMAIN usersCol :
        /\ usersCol[u] = MapToLowerCase(usersCol[u])
        /\ Len(usersCol[u]) = Cardinality(Range(usersCol[u]))
        /\ Len(usersCol[u]) <= 5

\* C11: favorites precede non-favorites in the chip selector: with profile
\* favorites F and universe U, the chip sequence is F followed by the
\* elements of U not in F, and no tag appears twice in it.
C11_FavoritesFirst ==
    LET F == userInterests
        U == allTags
        rest == {i \in 1..Len(U) : \A j \in 1..Len(F) : F[j] # U[i]}
    IN  /\ Len(ChipRow) = Len(F) + Cardinality(rest)
        /\ \A i \in 1..Len(F) : ChipRow[i] = F[i]
        /\ \A i \in rest :
              ChipRow[Len(F) + Cardinality({j \in rest : j < i}) + 1] = U[i]
        /\ \A i, j \in 1..Len(ChipRow) : i # j => ChipRow[i] # ChipRow[j]

\* the row shows two favorites of the universe first and another tag after
C11_Witness ==
    /\ Len(userInterests) = 2
    /\ \A i \in 1..2 : userInterests[i] \in Range(allTags)
    /\ Len(ChipRow) > 2

\* a precedes b in lexicographic order of code units
LexLess(a, b) ==
    \E k \in 1..(Len(a) + 1) :
        /\ k - 1 <= Len(b)
        /\ \A i \in 1..(k - 1) : a[i] = b[i]
        /\ \/ (k = Len(a) + 1 /\ Len(b) >= k)
           \/ (k <= Len(a) /\ k <= Len(b) /\ a[k] < b[k])

\* the lowercased tags of all posts of a collection
LowercasedTagsOf(col) ==
    UNION {{ToLowerCase(col[id].interests[i]) : i \in 1..Len(col[id].interests)} :
              id \in DOMAIN col}

\* C12: the Tag Aggregator output is exactly the set of lowercased tags of
\* all posts in the snapshot, with no duplicates, sorted lexicographically
\* ascending.
C12_AggregatorOutput ==
    ~IsNone(tagsDelivered) =>
        /\ Range(allTags) = LowercasedTagsOf(Get(tagsDelivered))
        /\ \A i, j \in 1..Len(allTags) : i < j => LexLess(allTags[i], allTags[j])

\* a snapshot of four tags, one capitalised and two shared by two posts, was
\* aggregated to two tags
C12_Witness ==
    /\ ~IsNone(tagsDelivered)
    /\ \E id \in DOMAIN Get(tagsDelivered) :
          s_Art \in Range(Get(tagsDelivered)[id].interests)
    /\ Len(FlatInterests(DocsById(Get(tagsDelivered)))) = 4
    /\ Len(allTags) = 2

\* the documents of a collection in the order p
Reordered(docs, p) == [i \in 1..Len(docs) |-> docs[p[i]]]

\* C13: for any two orderings of the same set of posts the Tag Aggregator
\* returns the same sorted sequence.
C13_AggregatorPermutation ==
    ~IsNone(tagsDelivered) =>
        LET docs == DocsById(Get(tagsDelivered))
        IN  \A p \in Permutations(1..Len(docs)) :
                TagAggregateDocs(Reordered(docs, p)) = allTags

\* two posts whose tags arrive in a different order when the posts are
\* exchanged were aggregated
C13_Witness ==
    /\ ~IsNone(tagsDelivered)
    /\ LET docs == DocsById(Get(tagsDelivered))
       IN  /\ Len(docs) = 2
           /\ Uniq(FlatInterests(docs)) # Uniq(FlatInterests(<<docs[2], docs[1]>>))
    /\ allTags # <<>>

\* the records of a collection whose interests are an array of strings
WellFormed(col) ==
    {id \in DOMAIN col :
        col[id].interests # Undefined /\ ~IsWrongTyped(col[id].interests)}

\* C14: a malformed record never aborts a batch: a post whose tags are
\* missing or wrong-typed counts as having no tags, and tag aggregation,
\* discovery filtering and feed assembly still produce their results for all
\* other records of the same snapshot.
C14_MalformedRecordTolerated ==
    /\ ~IsNone(tagsDelivered) =>
          LET col == Get(tagsDelivered)
          IN  \A id \in WellFormed(col) :
                  \A i \in 1..Len(col[id].interests) :
                      ToLowerCase(col[id].interests[i]) \in Range(allTags)
    /\ (~IsNone(discRun) /\ Get(discRun).sel # <<>>) =>
          LET run == Get(discRun)
          IN  \A id \in WellFormed(run.seen) :
                  (/\ run.qnow < run.seen[id].expiresAt
                   /\ SubstringOfSomeTag(run.sel, run.seen[id].interests))
                      => id \in ShownIds(discSnaps)
    /\ (callbacks = <<>> /\ ~IsNone(lastDelivered)) =>
          /\ ShownIds(storeSnaps) = ShownIds(Get(lastDelivered))
          /\ \A i \in 1..Len(storeSnaps) :
                snapsCol[storeSnaps[i].id].interests = Undefined
                    => storeSnaps[i].interests = <<>>

\* C18: every stored post's tags are a set of lowercase strings: the stored
\* tag list contains only lowercase strings and no string twice.
C18_PostTagsLowercaseSet ==
    \A id \in Ids :
        /\ snapsCol[id].interests = MapToLowerCase(snapsCol[id].interests)
        /\ Len(snapsCol[id].interests) = Cardinality(Range(snapsCol[id].interests))

\* the decimal digits of a number below 100
TwoDigits(n) == IF n < 10 THEN <<48 + n>> ELSE <<48 + (n \div 10), 48 + (n % 10)>>

\* C19: the remaining-time label is "{h}h left" with h = floor(remaining /
\* 1 hour) when remaining >= 1 hour, else "{m}m left" with m =
\* floor(remaining / 1 minute) when remaining >= 1 minute, else "Expired";
\* a post created at T0 with TTL 24h reads "1h left" at T0 + 23h, and 119
\* minutes remaining read "1h left".
C19_TimeLabelBuckets ==
    ~IsNone(shownLabel) =>
        LET r == Get(shownLabel)
            remaining == r.expiresAt - r.at
            h == CHOOSE k \in 0..25 : k * 3600000 <= remaining
                                      /\ remaining < (k + 1) * 3600000
            m == CHOOSE k \in 0..59 : k * 60000 <= remaining
                                      /\ remaining < (k + 1) * 60000
        IN  /\ remaining >= 3600000 => r.text = TwoDigits(h) \o s_h_left
            /\ (remaining < 3600000 /\ remaining >= 60000)
                  => r.text = TwoDigits(m) \o s_m_left
            /\ remaining < 60000 => r.text = s_Expired
            /\ (r.expiresAt = 24 * 3600000 /\ r.at = 23 * 3600000)
                  => r.text = s_1h_left
            /\ remaining = 119 * 60000 => r.text = s_1h_left

\* a card was rendered with exactly 119 minutes remaining
C19_Witness ==
    /\ ~IsNone(shownLabel)
    /\ Get(shownLabel).expiresAt - Get(shownLabel).at = 119 * 60000
    /\ Get(shownLabel).text = s_1h_left

\* C20: a notification's seen flag is flipped exactly once, by the
\* recipient, from false to true: no step sets seen of a notification from
\* true back to false, and dismissing writes seen = true for a notification
\* at most once.
C20_SeenFlippedOnce ==
    [][\A id \in DOMAIN notifCol :
          /\ notifCol[id].seen => notifCol'[id].seen
          /\ seenWrites'[id] <= 1]_vars

\* C23: ordering posts by expiresAt descending is newest-first: for any two
\* stored posts p and q, p.expiresAt > q.expiresAt if and only if
\* p.createdAt > q.createdAt.
C23_ExpiryOrderIsCreationOrder ==
    \A p \in Ids, q \in Ids :
        (snapsCol[p].expiresAt > snapsCol[q].expiresAt)
            <=> (snapsCol[p].createdAt > snapsCol[q].createdAt)

C22_OwnerImmutable ==
    [][\A id \in Ids :
          id \in DOMAIN snapsCol' => snapsCol'[id].owner = snapsCol[id].owner]_vars

\* C24: only a post's owner can delete it: a step that removes a post is
\* the delete of its owner and ends in the success alert, and a delete by a
\* user who is not the post's owner leaves the snaps collection unchanged
\* and ends in an error alert.
C24_OnlyOwnerDeletes ==
    [][
       /\ \A id \in Ids :
             id \notin DOMAIN snapsCol'
                => (snapsCol[id].owner = Get(authUser)
                    /\ Get(alert').title = "Success")
       /\ (~IsNone(deletingSnap) /\ IsNone(deletingSnap')
             /\ Get(deletingSnap).id \in Ids
             /\ snapsCol[Get(deletingSnap).id].owner # Get(authUser))
             => (snapsCol' = snapsCol /\ Get(alert').title = "Error")
       /\ (IsNone(deletingSnap) /\ IsNone(deletingSnap') /\ alert' # alert)
             => (snapsCol' = snapsCol /\ Get(alert').title = "Error")
      ]_vars

\* the viewer's delete of another user's post was refused by the rules and
\* both posts are still stored
C24_Witness ==
    /\ IsNone(deletingSnap)
    /\ ~IsNone(alert)
    /\ Get(alert).message = "Failed to delete snap. Please try again."
    /\ Ids = {1, 2}
    /\ snapsCol[1].owner = Me
    /\ snapsCol[2].owner # Me

\* C25: once fetching has quiesced, the displayed Discover results belong to
\* the current selection: with no fetchSnaps run in flight, the run that set
\* the displayed list is the run for the selected tag.
C25_ResultsOfCurrentSelection ==
    (fetches = <<>> /\ ~IsNone(discRun)) => Get(discRun).sel = selected

\* C26: after logout the store's snaps stay empty: while nobody is signed in
\* and the feed listener is unsubscribed, no step puts posts into the
\* store's snaps.
C26_SnapsStayEmptyAfterLogout ==
    [][(IsNone(storeUser) /\ IsNone(feedQ) /\ storeSnaps = <<>>)
          => storeSnaps' = <<>>]_vars

\* C27: once all handleAuthStateChange invocations have finished, the
\* store's userData is null whenever user is null, and userData.uid equals
\* user.uid otherwise.
C27_UserAndUserDataConsistent ==
    handlers = <<>> =>
        IF IsNone(storeUser)
        THEN IsNone(storeUserData)
        ELSE ~IsNone(storeUserData) /\ Get(storeUserData).uid = Get(storeUser)

\* C28: the default profile is written only for a user who has no profile
\* document: a step in which handleAuthStateChange finishes leaves every
\* stored profile document as it was.
C28_DefaultNeverReplacesProfile ==
    [][Len(handlers') < Len(handlers)
          => \A u \in DOMAIN usersCol : usersCol'[u] = usersCol[u]]_vars

\* C29: reply and notification are created together: when no sendReply is
\* running, a reply document of the sender for a post exists if and only if
\* an unseen notification to the post's owner was created for it, and the
\* success alert is shown only when both exist.
C29_ReplyAndNotificationTogether ==
    IsNone(replyRun) =>
        /\ \A i \in Ids, u \in Users :
              (\E k \in 1..Len(repliesCol) :
                  repliesCol[k].snapId = i /\ repliesCol[k].from = u)
              <=> (\E k \in 1..Len(notifCol) :
                      /\ notifCol[k].snapId = i
                      /\ notifCol[k].from = u
                      /\ notifCol[k].to = snapsCol[i].owner)
        /\ (~IsNone(alert) /\ Get(alert).title = "Success")
              => (repliesCol # <<>> /\ notifCol # <<>>)

\* C30: a post is never stored with an empty tag list: every stored post
\* document has at least one tag.
C30_NoEmptyTagList ==
    \A id \in Ids : Len(snapsCol[id].interests) >= 1

====
